---- MODULE Spec2Model ----
(***************************************************************************)
(* A model of the CPU software renderer: the per-draw-call Geometry        *)
(* buffer (backface culling, frustum clipping) and the tiled rasterizer    *)
(* (binning, per-tile raster tasks, blit, frame loop).                     *)
(*                                                                         *)
(* Numbers.  The program computes in f64.  The model computes in exact     *)
(* rational arithmetic: a number is a pair <<num, den>> with den > 0 in    *)
(* lowest terms.  Clip-space lengths are counted in units of 0.5e-12, so   *)
(* that the threshold 1e-12 of lin_plane_intersect4 is ParallelEps = 2     *)
(* units.  Sequences are 1-based: vertex index i of the program is index   *)
(* i + 1 of the model.                                                     *)
(***************************************************************************)
EXTENDS Integers, Sequences, FiniteSets, TLC

VARIABLES
    vertices,             \* Geometry::vertices : Seq of DVec4
    uvs,                  \* Geometry::uvs      : Seq of DVec2
    triangles,            \* Geometry::triangles: Seq of vertex indices, 3 per triangle
    calls,                \* history: the Geometry methods called so far, latest last
    prev_triangles,       \* history: Geometry::triangles before the latest call
    prev_nb_vertices,     \* history: number of vertices before the latest call
    screen_width,         \* Screen::width
    screen_height,        \* Screen::height
    rasterizer_tile_size, \* Rasterizer::tile_size
    rasterizer_tiles,     \* Rasterizer::tiles
    screen_frame,         \* the frame of Screen::pixels
    meshes,               \* Scene::meshes
    camera,               \* Scene::camera
    pc,                   \* where the frame loop stands
    mesh_index,           \* process_scene: the next mesh to draw
    cur_it,               \* App::cur_it: frames rendered
    task_bins,            \* rasterize_threaded: the bins of the running draw call
    task_pc,              \* for every tile task, the next entry of its bin
    frame_hits,           \* history: per tile, the inside-test passes of this frame
    blit_log,             \* history: per tile, the frame indices its last blit wrote
    frame_start,          \* history: tiles and frame when the frame started
    draw_start,           \* history: tiles and frame when the latest draw call started
    accesses,             \* history: buffer accesses of the running draw call
    lights,               \* Scene::lights
    shader,               \* the Shader
    shade_call,           \* history: the latest Shader::shade call and its outcome
    texture_catalog,      \* the TextureCatalog: [next_id, textures, texture_ids]
    add_calls,            \* history: the add_texture calls and their results
    sample_call,          \* the arguments of Texture::from_uv and, once called, its results
    texture_call,         \* history: the latest Texture::from_pixels call and its outcome
    scene_mesh,           \* a Mesh: [texture_id, translation, scale, quat, world_transfrom, ...]
    mesh_calls,           \* history: the Mesh methods called so far, latest last
    scene_camera,         \* a Camera: [position, quat, transform, camera_style]
    camera_calls,         \* history: the yaw_pitch_roll calls made so far
    clip_w_inv,           \* Geometry::clip_w_inv
    key_states,           \* InputHandler::key_states
    key_bindings,         \* InputHandler::pressed_action, held_action, released_action
    mouse_delta,          \* InputHandler::mouse_delta
    keys_down,            \* history: the keys whose latest event is a press
    collect_calls,        \* history: the latest collect_actions call and what it returned
    max_it,               \* App::max_it
    exiting,              \* event_loop.exit() was called
    now,                  \* Instant::now(), in ticks
    next_frame_time       \* App::next_frame_time, in ticks

geomVars == <<vertices, uvs, triangles, calls, prev_triangles, prev_nb_vertices>>

rasterVars == <<screen_width, screen_height, rasterizer_tile_size, rasterizer_tiles,
                screen_frame, meshes, camera, pc, mesh_index, cur_it, task_bins, task_pc,
                frame_hits, blit_log, frame_start, draw_start, accesses>>

resourceVars == <<lights, shader, shade_call, texture_catalog, add_calls, sample_call>>

meshVars == <<scene_mesh, mesh_calls>>
cameraVars == <<scene_camera, camera_calls>>
inputVars == <<key_states, key_bindings, mouse_delta, keys_down, collect_calls>>
loopVars == <<max_it, exiting, now, next_frame_time>>
appVars == <<texture_call, meshVars, cameraVars, clip_w_inv, inputVars, loopVars>>

vars == <<geomVars, rasterVars, resourceVars, appVars>>

\* The state of the rasterizer while the Geometry buffer is explored.
RasterUnused ==
    /\ screen_width = 0
    /\ screen_height = 0
    /\ rasterizer_tile_size = 0
    /\ rasterizer_tiles = <<>>
    /\ screen_frame = <<>>
    /\ meshes = <<>>
    /\ camera = 0
    /\ pc = "geometry"
    /\ mesh_index = 0
    /\ cur_it = 0
    /\ task_bins = <<>>
    /\ task_pc = <<>>
    /\ frame_hits = <<>>
    /\ blit_log = <<>>
    /\ frame_start = <<>>
    /\ draw_start = <<>>
    /\ accesses = {}

\* The state of the scene's lights, of the texture catalog and of the
\* texture sampler while another part is explored.
ShadeUnused ==
    /\ lights = <<>>
    /\ shader = <<>>
    /\ shade_call = <<>>
CatalogUnused ==
    /\ texture_catalog = <<>>
    /\ add_calls = <<>>
MeshUnused ==
    /\ scene_mesh = <<>>
    /\ mesh_calls = <<>>
CameraUnused ==
    /\ scene_camera = <<>>
    /\ camera_calls = <<>>
InputUnused ==
    /\ key_states = <<>>
    /\ key_bindings = <<>>
    /\ mouse_delta = <<>>
    /\ keys_down = {}
    /\ collect_calls = <<>>
LoopUnused ==
    /\ max_it = 0
    /\ exiting = FALSE
    /\ now = 0
    /\ next_frame_time = 0
AppUnused ==
    /\ texture_call = <<>>
    /\ MeshUnused
    /\ CameraUnused
    /\ clip_w_inv = <<>>
    /\ InputUnused
    /\ LoopUnused

---------------------------------------------------------------------------
(* Exact rational arithmetic standing for f64.                             *)

Abs(x) == IF x < 0 THEN -x ELSE x

RECURSIVE Gcd(_, _)
Gcd(a, b) == IF b = 0 THEN a ELSE Gcd(b, a % b)

QNorm(n, d) ==
    LET g == Gcd(Abs(n), Abs(d))
        s == IF d < 0 THEN -1 ELSE 1
    IN  <<(s * n) \div g, (s * d) \div g>>

Q(i) == <<i, 1>>
\* Sums and products reduce by common factors before multiplying.
QAdd(p, q) ==
    LET g == Gcd(p[2], q[2])
    IN  QNorm(p[1] * (q[2] \div g) + q[1] * (p[2] \div g), (p[2] \div g) * q[2])
QSub(p, q) == QAdd(p, <<-q[1], q[2]>>)
QMul(p, q) ==
    LET g1 == Gcd(Abs(p[1]), q[2])
        g2 == Gcd(Abs(q[1]), p[2])
    IN  <<(p[1] \div g1) * (q[1] \div g2), (p[2] \div g2) * (q[2] \div g1)>>
QDiv(p, q) ==
    IF q[1] < 0 THEN QMul(p, <<-q[2], -q[1]>>) ELSE QMul(p, <<q[2], q[1]>>)
QNeg(p) == <<-p[1], p[2]>>
QAbs(p) == <<Abs(p[1]), p[2]>>
QLt(p, q) == QSub(p, q)[1] < 0
QLe(p, q) == QSub(p, q)[1] <= 0

(* glam vectors: a DVec4 / DVec3 / DVec2 is a tuple of rationals.          *)
DVec4(x, y, z, w) == <<Q(x), Q(y), Q(z), Q(w)>>
DVec3(x, y, z) == <<Q(x), Q(y), Q(z)>>
DVec2(x, y) == <<Q(x), Q(y)>>
xyz(v) == <<v[1], v[2], v[3]>>

sub(a, b) == [i \in DOMAIN a |-> QSub(a[i], b[i])]
dot4(a, b) ==
    QAdd(QAdd(QMul(a[1], b[1]), QMul(a[2], b[2])),
         QAdd(QMul(a[3], b[3]), QMul(a[4], b[4])))
dot3(a, b) ==
    QAdd(QAdd(QMul(a[1], b[1]), QMul(a[2], b[2])), QMul(a[3], b[3]))
cross(a, b) ==
    << QSub(QMul(a[2], b[3]), QMul(a[3], b[2])),
       QSub(QMul(a[3], b[1]), QMul(a[1], b[3])),
       QSub(QMul(a[1], b[2]), QMul(a[2], b[1])) >>
\* glam lerp: self + (rhs - self) * s
lerp(a, b, t) == [i \in DOMAIN a |-> QAdd(a[i], QMul(QSub(b[i], a[i]), t))]

---------------------------------------------------------------------------
(* algorithm.rs                                                            *)

\* 1e-12, in the model's length unit of 0.5e-12.
ParallelEps == 2

\* Option<f64>::None: a pair that is no rational (denominator 0).
None == <<0, 0>>

\* lin_plane_intersect4(p_0, n, l_0, l): the t of the intersection, or None
\* when the line is (nearly) parallel to the plane.
lin_plane_intersect4(p_0, n, l_0, l) ==
    LET denomi == dot4(l, n)
    IN  IF QLt(QAbs(denomi), Q(ParallelEps))
        THEN None
        ELSE QDiv(dot4(sub(p_0, l_0), n), denomi)

---------------------------------------------------------------------------
(* pipeline/geometry.rs: Geometry::cull_backface                           *)

\* faces_camera with the comparison `<= 0.0` in place of `< 0.0`.
faces_camera_or_edge_on(a, b, c, camera_position) ==
    LET cam_to_tri == sub(a, camera_position)
        tri_face_normal == cross(sub(b, a), sub(c, a))
    IN  QLe(dot3(cam_to_tri, tri_face_normal), Q(0))

\* The test of one triangle (geometry.rs 113-118): keep it iff it faces the
\* camera.
faces_camera(a, b, c, camera_position) ==
    LET cam_to_tri == sub(a, camera_position)
        tri_face_normal == cross(sub(b, a), sub(c, a))
    IN  QLt(dot3(cam_to_tri, tri_face_normal), Q(0))

RECURSIVE cull_loop(_, _, _, _, _)
cull_loop(verts, tris, triangle_index_start, camera_position, kept) ==
    IF triangle_index_start > Len(tris)
    THEN kept
    ELSE LET ai == tris[triangle_index_start]
             bi == tris[triangle_index_start + 1]
             ci == tris[triangle_index_start + 2]
             keep == faces_camera(xyz(verts[ai]), xyz(verts[bi]), xyz(verts[ci]),
                                  camera_position)
         IN  cull_loop(verts, tris, triangle_index_start + 3, camera_position,
                       IF keep THEN kept \o <<ai, bi, ci>> ELSE kept)

\* The new triangle list of cull_backface.
cull_backface(verts, tris, camera_position) ==
    cull_loop(verts, tris, 1, camera_position, <<>>)

---------------------------------------------------------------------------
(* pipeline/geometry.rs: Geometry::clip_geometry                           *)

\* hyperplanes with the normal of z = w written for ZN as well, so that
\* nothing is clipped against z = -w.
hyperplanes_zn_as_zp ==
    << <<"XP", DVec4(1, 0, 0, -1)>>,
       <<"XN", DVec4(-1, 0, 0, -1)>>,
       <<"YP", DVec4(0, 1, 0, -1)>>,
       <<"YN", DVec4(0, -1, 0, -1)>>,
       <<"ZP", DVec4(0, 0, 1, -1)>>,
       <<"ZN", DVec4(0, 0, 1, -1)>> >>

\* The six clip planes with their outward normals, in clipping order.
hyperplanes ==
    << <<"XP", DVec4(1, 0, 0, -1)>>,
       <<"XN", DVec4(-1, 0, 0, -1)>>,
       <<"YP", DVec4(0, 1, 0, -1)>>,
       <<"YN", DVec4(0, -1, 0, -1)>>,
       <<"ZP", DVec4(0, 0, 1, -1)>>,
       <<"ZN", DVec4(0, 0, -1, -1)>> >>

\* is_in with the comparison `< 0.0`: a vertex on the plane counts as outside.
is_in_strict(plane_n, v) == QLt(dot4(plane_n, v), Q(0))

\* a_in / b_in: the vertex is on the inner side of the plane (or on it).
is_in(plane_n, v) == QLe(dot4(plane_n, v), Q(0))

\* One iteration of the edge loop, for edge shape[edge] -> shape[edge + 1].
\* st = [vertices, uvs, intersection_cache, new_shape, triangle_index_start,
\* crossings]; the HashMap intersection_cache is the set of its
\* <<key, value>> entries.  crossings is history: one entry per edge found
\* with one end inside and one end outside a plane, with the index pushed for
\* the intersection (0 when none is) and whether a vertex was appended.
crossing(st, ai, bi, plane_type, ci, appended) ==
    [ triangle_index_start |-> st.triangle_index_start, ai |-> ai, bi |-> bi,
      plane |-> plane_type, ci |-> ci, appended |-> appended ]

\* clip_cross with the cache keyed by the edge as traversed, (ai, bi, plane).
clip_cross_directed(st, ai, bi, plane_type, t) ==
    LET key == <<ai, bi, plane_type>>
        ci == Len(st.vertices) + 1
    IN  IF \E e \in st.intersection_cache : e[1] = key
        THEN LET cached == (CHOOSE e \in st.intersection_cache : e[1] = key)[2]
             IN  [st EXCEPT !.new_shape = Append(@, cached),
                            !.crossings = Append(@, crossing(st, ai, bi, plane_type,
                                                             cached, FALSE))]
        ELSE [st EXCEPT
                !.vertices = Append(@, lerp(st.vertices[ai], st.vertices[bi], t)),
                !.uvs = Append(@, lerp(st.uvs[ai], st.uvs[bi], t)),
                !.intersection_cache = @ \cup {<<key, ci>>},
                !.new_shape = Append(@, ci),
                !.crossings = Append(@, crossing(st, ai, bi, plane_type, ci, TRUE))]

\* The intersection branch (geometry.rs 213-235), t being Some(t).
clip_cross(st, ai, bi, plane_type, t) ==
    LET e1 == IF ai > bi THEN bi ELSE ai
        e2 == IF ai > bi THEN ai ELSE bi
        key == <<e1, e2, plane_type>>
        ci == Len(st.vertices) + 1
    IN  IF \E e \in st.intersection_cache : e[1] = key
        THEN LET cached == (CHOOSE e \in st.intersection_cache : e[1] = key)[2]
             IN  [st EXCEPT !.new_shape = Append(@, cached),
                            !.crossings = Append(@, crossing(st, ai, bi, plane_type,
                                                             cached, FALSE))]
        ELSE [st EXCEPT
                !.vertices = Append(@, lerp(st.vertices[ai], st.vertices[bi], t)),
                !.uvs = Append(@, lerp(st.uvs[ai], st.uvs[bi], t)),
                !.intersection_cache = @ \cup {<<key, ci>>},
                !.new_shape = Append(@, ci),
                !.crossings = Append(@, crossing(st, ai, bi, plane_type, ci, TRUE))]

\* The body of the edge loop once a_in and b_in are known.
clip_edge_in(st, ai, bi, plane, a_in, b_in) ==
    IF (b_in /\ ~a_in) \/ (a_in /\ ~b_in)
    THEN CHOOSE r \in
           { IF t = None
             THEN \* parallel edge: push and `continue`
                  IF ~b_in
                  THEN [st EXCEPT !.new_shape = Append(@, bi),
                                  !.crossings = Append(@, crossing(st, ai, bi, plane[1],
                                                                   0, FALSE))]
                  ELSE [st EXCEPT !.new_shape = @ \o <<ai, bi>>,
                                  !.crossings = Append(@, crossing(st, ai, bi, plane[1],
                                                                   0, FALSE))]
             ELSE IF b_in
                  THEN [clip_cross(st, ai, bi, plane[1], t)
                            EXCEPT !.new_shape = Append(@, bi)]
                  ELSE clip_cross(st, ai, bi, plane[1], t)
             : t \in {lin_plane_intersect4(DVec4(0, 0, 0, 0), plane[2],
                                           st.vertices[ai],
                                           sub(st.vertices[bi], st.vertices[ai]))} }
           : TRUE
    ELSE IF b_in
         THEN [st EXCEPT !.new_shape = Append(@, bi)]
         ELSE st

clip_edge(st, shape, edge, plane) ==
    LET ai == shape[edge]
        bi == shape[(edge % Len(shape)) + 1]
    IN  CHOOSE r \in
          { clip_edge_in(st, ai, bi, plane, a_in, b_in) :
              a_in \in {is_in(plane[2], st.vertices[ai])},
              b_in \in {is_in(plane[2], st.vertices[bi])} }
          : TRUE

\* The edge loop of one plane.  (CHOOSE over a singleton set binds the
\* value of one step before the next step uses it.)
RECURSIVE clip_edges(_, _, _, _)
clip_edges(st, shape, edge, plane) ==
    IF edge > Len(shape)
    THEN st
    ELSE CHOOSE r \in { clip_edges(s, shape, edge + 1, plane) :
                          s \in {clip_edge(st, shape, edge, plane)} } : TRUE

\* The plane loop: shape = new_shape after each plane.  The final shape is
\* left in new_shape.
RECURSIVE clip_planes(_, _, _)
clip_planes(st, shape, p) ==
    IF p > Len(hyperplanes)
    THEN [st EXCEPT !.new_shape = shape]
    ELSE CHOOSE r \in
           { clip_planes(s, s.new_shape, p + 1) :
               s \in {clip_edges([st EXCEPT !.new_shape = <<>>], shape, 1, hyperplanes[p])} }
           : TRUE

\* Fan triangulation from shape[0].
\* fan with the loop `for v in 1..(shape.len() - 2)`: the last triangle of
\* the fan is left out.
RECURSIVE fan_short(_, _)
fan_short(shape, v) ==
    IF Len(shape) < 3 \/ v > Len(shape) - 2
    THEN <<>>
    ELSE <<shape[1], shape[v], shape[v + 1]>> \o fan_short(shape, v + 1)

RECURSIVE fan(_, _)
fan(shape, v) ==
    IF Len(shape) < 3 \/ v > Len(shape) - 1
    THEN <<>>
    ELSE <<shape[1], shape[v], shape[v + 1]>> \o fan(shape, v + 1)

\* The triangle loop.  st carries the growing vertices, uvs and cache; out
\* is the new triangle list.
RECURSIVE clip_triangles(_, _, _, _)
clip_triangles(st, tris, triangle_index_start, out) ==
    IF triangle_index_start > Len(tris)
    THEN [vertices |-> st.vertices, uvs |-> st.uvs, triangles |-> out,
          crossings |-> st.crossings]
    ELSE LET shape == << tris[triangle_index_start],
                         tris[triangle_index_start + 1],
                         tris[triangle_index_start + 2] >>
         IN  CHOOSE r \in
               { clip_triangles(s, tris, triangle_index_start + 3,
                                out \o fan(s.new_shape, 2)) :
                   s \in {clip_planes([st EXCEPT !.triangle_index_start =
                                                      triangle_index_start],
                                       shape, 1)} }
               : TRUE

\* clip_geometry: the geometry [vertices, uvs, triangles] after the call,
\* with the history of the edges it cut.
clip_geometry(verts, uv, tris) ==
    clip_triangles([vertices |-> verts, uvs |-> uv,
                    intersection_cache |-> {}, new_shape |-> <<>>,
                    triangle_index_start |-> 0, crossings |-> <<>>],
                   tris, 1, <<>>)

---------------------------------------------------------------------------
(* f64 values that are not finite.  A pair with denominator 0 is NaN       *)
(* (numerator 0) or an infinity (numerator 1 or -1).  The rasterizer meets *)
(* them in two places: the depth buffer starts at +infinity, and a         *)
(* triangle without area divides 0.0 by 0.0.  Infinities are only ever     *)
(* compared, so arithmetic on a non-finite operand is NaN.                 *)

NaN == <<0, 0>>
INFINITY == <<1, 0>>
is_finite(p) == p[2] # 0
Sign(x) == IF x > 0 THEN 1 ELSE IF x < 0 THEN -1 ELSE 0

FAdd(p, q) == IF is_finite(p) /\ is_finite(q) THEN QAdd(p, q) ELSE NaN
FSub(p, q) == IF is_finite(p) /\ is_finite(q) THEN QSub(p, q) ELSE NaN
FMul(p, q) == IF is_finite(p) /\ is_finite(q) THEN QMul(p, q) ELSE NaN
\* x / 0.0 is an infinity with the sign of x, and 0.0 / 0.0 is NaN.
FDiv(p, q) ==
    IF ~(is_finite(p) /\ is_finite(q)) THEN NaN
    ELSE IF q[1] = 0 THEN <<Sign(p[1]), 0>>
    ELSE QDiv(p, q)
\* p < q: false as soon as one side is NaN.
FLt(p, q) ==
    IF p = NaN \/ q = NaN THEN FALSE
    ELSE IF is_finite(p) /\ is_finite(q) THEN QLt(p, q)
    ELSE IF is_finite(p) THEN q[1] > 0
    ELSE IF is_finite(q) THEN p[1] < 0
    ELSE p[1] < q[1]
\* p >= 0.0
FGe0(p) == p # NaN /\ p[1] >= 0

Min(a, b) == IF a < b THEN a ELSE b
Max(a, b) == IF a > b THEN a ELSE b
QMin(p, q) == IF QLt(q, p) THEN q ELSE p
QMax(p, q) == IF QLt(p, q) THEN q ELSE p
\* f64::floor, f64::ceil and f64::trunc of a finite number, as integers.
Floor(p) == IF p[1] >= 0 THEN p[1] \div p[2] ELSE -((-p[1] + p[2] - 1) \div p[2])
Ceil(p) == -Floor(QNeg(p))
Trunc(p) == IF p[1] >= 0 THEN Floor(p) ELSE Ceil(p)
\* `x as usize` for the values the casts of the model meet: NaN and negative
\* numbers become 0, a finite number is truncated.
as_usize(p) == IF ~is_finite(p) \/ p[1] < 0 THEN 0 ELSE Floor(p)

(* DVec2 arithmetic of the rasterizer.                                     *)
add2(a, b) == <<FAdd(a[1], b[1]), FAdd(a[2], b[2])>>
sub2(a, b) == <<FSub(a[1], b[1]), FSub(a[2], b[2])>>
dot2(a, b) == FAdd(FMul(a[1], b[1]), FMul(a[2], b[2]))
scale2(s, a) == <<FMul(s, a[1]), FMul(s, a[2])>>
div2(a, s) == <<FDiv(a[1], s), FDiv(a[2], s)>>
xy(v) == <<v[1], v[2]>>

---------------------------------------------------------------------------
(* algorithm.rs: barycentric_gradients2 and triangle_aabs                  *)

\* One "height" of the triangle: edge - (edge . base / base . base) * base
height2(edge, base) == sub2(edge, scale2(FDiv(dot2(edge, base), dot2(base, base)), base))

\* (u_alpha, u_beta, u_gamma)
barycentric_gradients2(a, b, c) ==
    LET ca == sub2(a, c)
        bc == sub2(c, b)
        ab == sub2(b, a)
    IN  << div2(height2(ca, bc), dot2(height2(ca, bc), ca)),
           div2(height2(ab, ca), dot2(height2(ab, ca), ab)),
           div2(height2(bc, ab), dot2(height2(bc, ab), bc)) >>

\* (min_x, max_x, min_y, max_y) of the bounding square, negative values
\* raised to 0.  The values are whole numbers.
triangle_aabs(a, b, c) ==
    << Max(Floor(QMin(QMin(a[1], b[1]), c[1])), 0),
       Max(Ceil(QMax(QMax(a[1], b[1]), c[1])), 0),
       Max(Floor(QMin(QMin(a[2], b[2]), c[2])), 0),
       Max(Ceil(QMax(QMax(a[2], b[2]), c[2])), 0) >>

---------------------------------------------------------------------------
(* resources/texture.rs.  A texture is [width, height, format, pixels]     *)
(* with pixels the sequence of its texels, each a tuple of nb_chanels      *)
(* bytes.  Option<&Texture> is [is_some, texture].                         *)

nb_chanels(texture) == IF texture.format = "RGBA32" THEN 4 ELSE 3

\* Texture::from_uv: the texel at (u, v).
from_uv(texture, u, v) ==
    LET u_fraction == FSub(u, IF is_finite(u) THEN Q(Trunc(u)) ELSE u)
        v_fraction == FSub(v, IF is_finite(v) THEN Q(Trunc(v)) ELSE v)
        x == Min(as_usize(FMul(u_fraction, Q(texture.width))), texture.width - 1)
        y == Min(as_usize(FMul(v_fraction, Q(texture.height))), texture.height - 1)
        index == x + y * texture.width
    IN  texture.pixels[index + 1]

---------------------------------------------------------------------------
(* scene/light.rs and pipeline/shader.rs.  A Light is [strength, color,    *)
(* light_type]; a LightType is [kind |-> "AtInfinity", dir] or             *)
(* [kind |-> "Point", position, constant, linear, quadratic].  Directions  *)
(* are taken from vectors whose length is rational, so that normalize is   *)
(* exact.                                                                  *)

AtInfinity(dir) == [kind |-> "AtInfinity", dir |-> dir]
Point(position, constant, linear, quadratic) ==
    [kind |-> "Point", position |-> position, constant |-> constant,
     linear |-> linear, quadratic |-> quadratic]

\* The square root of a square number, and of a ratio of two.
isqrt(n) == CHOOSE r \in 0..n : r * r = n
sqrt(q) == QNorm(isqrt(q[1]), isqrt(q[2]))
length(v) == sqrt(dot3(v, v))
normalize(v) == [i \in DOMAIN v |-> QDiv(v[i], length(v))]
neg(v) == [i \in DOMAIN v |-> QNeg(v[i])]

\* Light::new with the strength stored as given.
Light_new_unclamped(strength, color, light_type) ==
    IF light_type.kind = "AtInfinity"
    THEN LET dir == IF length(light_type.dir) = Q(0) THEN DVec3(0, 0, 1)
                    ELSE light_type.dir
         IN  [strength |-> strength, color |-> color,
              light_type |-> AtInfinity(normalize(dir))]
    ELSE [strength |-> strength, color |-> color,
          light_type |-> Point(light_type.position, QMax(light_type.constant, Q(0)),
                               light_type.linear, light_type.quadratic)]

\* Light::new (light.rs 17-48): the strength is raised to 0, a direction is
\* normalized (+Z for the zero vector), a Point's constant is raised to 0.
Light_new(strength, color, light_type) ==
    IF light_type.kind = "AtInfinity"
    THEN LET dir == IF length(light_type.dir) = Q(0) THEN DVec3(0, 0, 1)
                    ELSE light_type.dir
         IN  [strength |-> QMax(strength, Q(0)), color |-> color,
              light_type |-> AtInfinity(normalize(dir))]
    ELSE [strength |-> QMax(strength, Q(0)), color |-> color,
          light_type |-> Point(light_type.position, QMax(light_type.constant, Q(0)),
                               light_type.linear, light_type.quadratic)]

\* Shader::new (shader.rs 23-28).
Shader_new(ambient, shader_type) == [ambient |-> ambient, shader_type |-> shader_type]

\* The outcome of Shader::shade: the value returned, or the panic of todo!().
Returned(value) == [panicked |-> FALSE, value |-> value]
Panicked == [panicked |-> TRUE, value |-> NaN]

\* The loop of Shader::shade (shader.rs 44-52) from light i on.
RECURSIVE shade_loop(_, _, _, _)
shade_loop(shading, normal, light_list, i) ==
    IF i > Len(light_list)
    THEN Returned(QMin(shading, Q(1)))
    ELSE LET light == light_list[i]
         IN  IF light.light_type.kind = "AtInfinity"
             THEN shade_loop(QAdd(shading,
                                  QMul(light.strength,
                                       QMax(dot3(normal, neg(light.light_type.dir)), Q(0)))),
                             normal, light_list, i + 1)
             ELSE Panicked

\* Shader::shade (shader.rs 42-53).
shade(self, normal, light_list) == shade_loop(self.ambient, normal, light_list, 1)

---------------------------------------------------------------------------
(* pipeline/rasterizer.rs.  Buffers are functions from 0-based indices, as *)
(* in the program.  A Tile is [depth_buf, frame_buf]: depth_buf maps the   *)
(* tile's pixel indices 0 .. tile_size^2 - 1 to depths, frame_buf maps     *)
(* them to pixels <<r, g, b, a>> (the four bytes the program stores at     *)
(* 4 * pixel_index).  The output frame maps 0 .. width * height - 1 to     *)
(* pixels.  A draw call's geometry is [vertices, uvs, clip_w_inv,          *)
(* triangles] in screen space.                                             *)

nb_tiles(extent, tile_size) == (extent + tile_size - 1) \div tile_size

\* Rasterizer::new: transparent black at maximum depth.
new_tiles(tile_size, width, height) ==
    [tile_nb \in 0..(nb_tiles(width, tile_size) * nb_tiles(height, tile_size) - 1) |->
        [depth_buf |-> [i \in 0..(tile_size * tile_size - 1) |-> INFINITY],
         frame_buf |-> [i \in 0..(tile_size * tile_size - 1) |-> <<0, 0, 0, 0>>]]]

\* Rasterizer::clear without the depth fill.
clear_nothing(tiles) == tiles

\* Rasterizer::clear: the depth of every tile is filled with +infinity; the
\* fill of frame_buf is commented out in the program.
clear(tiles) ==
    [tile_nb \in DOMAIN tiles |->
        [tiles[tile_nb] EXCEPT !.depth_buf = [i \in DOMAIN @ |-> INFINITY]]]

(* Binning (rasterizer.rs 86-129).                                         *)

\* The triangle's bounding box in whole screen pixels, both ends included.
screen_aabs(geometry, triangle_index_start, width, height) ==
    LET a == geometry.vertices[geometry.triangles[triangle_index_start]]
        b == geometry.vertices[geometry.triangles[triangle_index_start + 1]]
        c == geometry.vertices[geometry.triangles[triangle_index_start + 2]]
    IN  CHOOSE r \in
          { [min_x |-> aabs[1], min_y |-> aabs[3],
             max_x |-> Min(aabs[2], width - 1), max_y |-> Min(aabs[4], height - 1)] :
              aabs \in {triangle_aabs(xy(a), xy(b), xy(c))} } : TRUE

\* The BinnedTriangle with max_x and max_y left relative to the tile but not
\* cut to the tile's last column and row.
binned_triangle_uncut(aabs, tile_x, tile_y, tile_size, triangle_index_start) ==
    [min_x |-> aabs.min_x - Min(tile_x * tile_size, aabs.min_x),
     min_y |-> aabs.min_y - Min(tile_y * tile_size, aabs.min_y),
     max_x |-> aabs.max_x - tile_x * tile_size,
     max_y |-> aabs.max_y - tile_y * tile_size,
     triangle_start |-> triangle_index_start]

\* The BinnedTriangle pushed for tile (tile_x, tile_y).
binned_triangle(aabs, tile_x, tile_y, tile_size, triangle_index_start) ==
    [min_x |-> aabs.min_x - Min(tile_x * tile_size, aabs.min_x),
     min_y |-> aabs.min_y - Min(tile_y * tile_size, aabs.min_y),
     max_x |-> Min(aabs.max_x - tile_x * tile_size, tile_size - 1),
     max_y |-> Min(aabs.max_y - tile_y * tile_size, tile_size - 1),
     triangle_start |-> triangle_index_start]

\* The pushes of one triangle onto the bins.
bin_triangle(binned_triangles, aabs, width, tile_size, triangle_index_start) ==
    LET nb_tiles_x == nb_tiles(width, tile_size)
        tiles_x == (aabs.min_x \div tile_size)..(aabs.max_x \div tile_size)
        tiles_y == (aabs.min_y \div tile_size)..(aabs.max_y \div tile_size)
    IN  [tile_nb \in DOMAIN binned_triangles |->
            IF \E tile_y \in tiles_y, tile_x \in tiles_x :
                  tile_x + tile_y * nb_tiles_x = tile_nb
            THEN LET t == CHOOSE t \in tiles_x \X tiles_y :
                              t[1] + t[2] * nb_tiles_x = tile_nb
                 IN  Append(binned_triangles[tile_nb],
                            binned_triangle(aabs, t[1], t[2], tile_size,
                                            triangle_index_start))
            ELSE binned_triangles[tile_nb]]

RECURSIVE bin_loop(_, _, _, _, _, _)
bin_loop(binned_triangles, geometry, width, height, tile_size, triangle_index_start) ==
    IF triangle_index_start > Len(geometry.triangles)
    THEN binned_triangles
    ELSE CHOOSE r \in
           { bin_loop(b, geometry, width, height, tile_size, triangle_index_start + 3) :
               b \in { bin_triangle(binned_triangles, aabs, width, tile_size,
                                    triangle_index_start) :
                         aabs \in {screen_aabs(geometry, triangle_index_start,
                                               width, height)} } } : TRUE

\* binned_triangles after the binning loop: for every tile, its
\* BinnedTriangles in triangle order.
bin_triangles(geometry, width, height, tile_size) ==
    bin_loop([tile_nb \in 0..(nb_tiles(width, tile_size) * nb_tiles(height, tile_size) - 1)
                 |-> <<>>],
             geometry, width, height, tile_size, 1)

(* The per-tile raster task (rasterizer.rs 134-269).                       *)

\* get_buffers with the frame buffer of tile 0 handed to every task.
get_buffers_shared_frame(tile_nb) == <<0, tile_nb>>

\* get_buffers with the depth buffer of tile 0 handed to every task.
get_buffers_shared_depth(tile_nb) == <<tile_nb, 0>>

\* The buffers the task of tile tile_nb works on, as the pair (tile whose
\* frame_buf, tile whose depth_buf): par_iter_mut().enumerate() hands the
\* task its own tile, and Tile::get_buffers borrows that tile's two buffers.
get_buffers(tile_nb) == <<tile_nb, tile_nb>>

\* The depth test with `<=` in place of `<`.
depth_test_or_equal(depth, stored) == FLt(depth, stored) \/ depth = stored

\* The depth test with the comparison left out.
depth_test_always(depth, stored) == TRUE

\* depth < tile_depth_buf[pixel_index]
depth_test(depth, stored) == FLt(depth, stored)

\* The four bytes the pixel holds after the write (rasterizer.rs 223-249):
\* the texel's nb_channels bytes, alpha 255 unless the texel has four; opaque
\* black without a texture.
pixel_color(texture, uv) ==
    IF texture.is_some
    THEN LET color == from_uv(texture.texture, uv[1], uv[2])
         IN  IF nb_chanels(texture.texture) # 4
             THEN <<color[1], color[2], color[3], 255>>
             ELSE color
    ELSE <<0, 0, 0, 255>>

\* alpha * va + beta * vb + gamma * vc
interp(alpha, beta, gamma, va, vb, vc) ==
    FAdd(FAdd(FMul(alpha, va), FMul(beta, vb)), FMul(gamma, vc))
\* alpha * uv_a * w_inv_a + beta * uv_b * w_inv_b + gamma * uv_c * w_inv_c
interp_uv_over_w(alpha, beta, gamma, tri) ==
    add2(add2(scale2(tri.w_inv_a, scale2(alpha, tri.uv_a)),
              scale2(tri.w_inv_b, scale2(beta, tri.uv_b))),
         scale2(tri.w_inv_c, scale2(gamma, tri.uv_c)))

\* What the task computes for one BinnedTriangle before its pixel loops
\* (rasterizer.rs 147-193).
triangle_setup(geometry, bt, tile_nb, width, tile_size) ==
    LET ai == geometry.triangles[bt.triangle_start]
        bi == geometry.triangles[bt.triangle_start + 1]
        ci == geometry.triangles[bt.triangle_start + 2]
        a == geometry.vertices[ai]
        b == geometry.vertices[bi]
        c == geometry.vertices[ci]
        x_offset == (tile_nb % nb_tiles(width, tile_size)) * tile_size
        y_offset == (tile_nb \div nb_tiles(width, tile_size)) * tile_size
        min_posf64_screen == << <<2 * (x_offset + bt.min_x) + 1, 2>>,
                                <<2 * (y_offset + bt.min_y) + 1, 2>> >>
        v == [a_z |-> a[3], b_z |-> b[3], c_z |-> c[3],
              uv_a |-> geometry.uvs[ai], uv_b |-> geometry.uvs[bi],
              uv_c |-> geometry.uvs[ci],
              w_inv_a |-> geometry.clip_w_inv[ai], w_inv_b |-> geometry.clip_w_inv[bi],
              w_inv_c |-> geometry.clip_w_inv[ci]]
    IN  CHOOSE r \in
          { [a_z |-> v.a_z, b_z |-> v.b_z, c_z |-> v.c_z,
             uv_a |-> v.uv_a, uv_b |-> v.uv_b, uv_c |-> v.uv_c,
             w_inv_a |-> v.w_inv_a, w_inv_b |-> v.w_inv_b, w_inv_c |-> v.w_inv_c,
             alpha_grad |-> g[1], beta_grad |-> g[2], gamma_grad |-> g[3],
             depth_dx |-> interp(g[1][1], g[2][1], g[3][1], v.a_z, v.b_z, v.c_z),
             w_inv_dx |-> interp(g[1][1], g[2][1], g[3][1],
                                 v.w_inv_a, v.w_inv_b, v.w_inv_c),
             uv_over_w_dx |-> interp_uv_over_w(g[1][1], g[2][1], g[3][1], v),
             alpha_00 |-> dot2(g[1], sub2(min_posf64_screen, xy(c))),
             beta_00 |-> dot2(g[2], sub2(min_posf64_screen, xy(a))),
             gamma_00 |-> dot2(g[3], sub2(min_posf64_screen, xy(b)))] :
              g \in {barycentric_gradients2(xy(a), xy(b), xy(c))} } : TRUE

\* One pixel of the inner loop (rasterizer.rs 213-261).  s holds the two
\* buffers and the loop variables.  s.hits is history: one record for every
\* pixel that passed the inside test, with the depth and the colour of the
\* triangle there and whether the pixel was written.
raster_pixel(s, tri, texture, bt) ==
    LET inside == FGe0(s.alpha_xy) /\ FGe0(s.beta_xy) /\ FGe0(s.gamma_xy)
    IN  CHOOSE r \in
          { [depth_buf |-> IF pass THEN [s.depth_buf EXCEPT ![s.pixel_index] = s.depth]
                           ELSE s.depth_buf,
             frame_buf |-> IF pass THEN [s.frame_buf EXCEPT ![s.pixel_index] = color]
                           ELSE s.frame_buf,
             hits |-> IF inside
                      THEN Append(s.hits, [pixel_index |-> s.pixel_index,
                                           triangle_start |-> bt.triangle_start,
                                           depth |-> s.depth, color |-> color,
                                           uv |-> div2(s.uv_over_w, s.w_inv),
                                           drawn |-> pass])
                      ELSE s.hits,
             alpha_xy |-> FAdd(s.alpha_xy, tri.alpha_grad[1]),
             beta_xy |-> FAdd(s.beta_xy, tri.beta_grad[1]),
             gamma_xy |-> FAdd(s.gamma_xy, tri.gamma_grad[1]),
             depth |-> FAdd(s.depth, tri.depth_dx),
             w_inv |-> FAdd(s.w_inv, tri.w_inv_dx),
             uv_over_w |-> add2(s.uv_over_w, tri.uv_over_w_dx),
             pixel_index |-> s.pixel_index + 1] :
              pass \in {inside /\ depth_test(s.depth, s.depth_buf[s.pixel_index])},
              color \in {IF inside THEN pixel_color(texture, div2(s.uv_over_w, s.w_inv))
                         ELSE <<>>} } : TRUE

\* for _ in min_x..=max_x
RECURSIVE raster_row(_, _, _, _, _)
raster_row(s, tri, texture, bt, x) ==
    IF x > bt.max_x
    THEN s
    ELSE CHOOSE r \in { raster_row(n, tri, texture, bt, x + 1) :
                          n \in {raster_pixel(s, tri, texture, bt)} } : TRUE

\* for y in min_y..=max_y.  r holds the buffers, the history and the
\* barycentric coordinates at the start of row y.
RECURSIVE raster_rows(_, _, _, _, _, _)
raster_rows(r, tri, texture, bt, tile_size, y) ==
    IF y > bt.max_y
    THEN [depth_buf |-> r.depth_buf, frame_buf |-> r.frame_buf, hits |-> r.hits]
    ELSE CHOOSE res \in
           { raster_rows([depth_buf |-> s.depth_buf, frame_buf |-> s.frame_buf,
                          hits |-> s.hits,
                          alpha_0y |-> FAdd(r.alpha_0y, tri.alpha_grad[2]),
                          beta_0y |-> FAdd(r.beta_0y, tri.beta_grad[2]),
                          gamma_0y |-> FAdd(r.gamma_0y, tri.gamma_grad[2])],
                         tri, texture, bt, tile_size, y + 1) :
               s \in { raster_row(
                         [depth_buf |-> r.depth_buf, frame_buf |-> r.frame_buf,
                          hits |-> r.hits,
                          alpha_xy |-> r.alpha_0y, beta_xy |-> r.beta_0y,
                          gamma_xy |-> r.gamma_0y,
                          depth |-> interp(r.alpha_0y, r.beta_0y, r.gamma_0y,
                                           tri.a_z, tri.b_z, tri.c_z),
                          w_inv |-> interp(r.alpha_0y, r.beta_0y, r.gamma_0y,
                                           tri.w_inv_a, tri.w_inv_b, tri.w_inv_c),
                          uv_over_w |-> interp_uv_over_w(r.alpha_0y, r.beta_0y,
                                                         r.gamma_0y, tri),
                          pixel_index |-> bt.min_x + y * tile_size],
                         tri, texture, bt, bt.min_x) } } : TRUE

\* One iteration of `for binned_triangle in binned_triangles_tile.iter()` on
\* the given buffers: the buffers afterwards, and the hits of the triangle.
raster_triangle(frame_buf, depth_buf, geometry, texture, bt, tile_nb, width, tile_size) ==
    CHOOSE res \in
      { raster_rows([depth_buf |-> depth_buf, frame_buf |-> frame_buf, hits |-> <<>>,
                     alpha_0y |-> tri.alpha_00, beta_0y |-> tri.beta_00,
                     gamma_0y |-> tri.gamma_00],
                    tri, texture, bt, tile_size, bt.min_y) :
          tri \in {triangle_setup(geometry, bt, tile_nb, width, tile_size)} } : TRUE

\* The same iteration as a step of the task of tile tile_nb on the tile
\* array: the tiles afterwards, and the hits.
raster_task_step(tiles, geometry, texture, bt, tile_nb, width, tile_size) ==
    LET bufs == get_buffers(tile_nb)
    IN  CHOOSE res \in
          { [tiles |-> [t \in DOMAIN tiles |->
                          [frame_buf |-> IF t = bufs[1] THEN r.frame_buf
                                         ELSE tiles[t].frame_buf,
                           depth_buf |-> IF t = bufs[2] THEN r.depth_buf
                                         ELSE tiles[t].depth_buf]],
             hits |-> r.hits] :
              r \in {raster_triangle(tiles[bufs[1]].frame_buf, tiles[bufs[2]].depth_buf,
                                     geometry, texture, bt, tile_nb, width, tile_size)} }
          : TRUE

\* The whole task of one tile, from binned triangle k of its bin on.  st is
\* [tiles, hits], hits mapping each tile to the history of its task.
RECURSIVE raster_task(_, _, _, _, _, _, _, _)
raster_task(st, geometry, texture, bin, k, tile_nb, width, tile_size) ==
    IF k > Len(bin)
    THEN st
    ELSE CHOOSE res \in
           { raster_task([tiles |-> r.tiles,
                          hits |-> [st.hits EXCEPT ![tile_nb] = @ \o r.hits]],
                         geometry, texture, bin, k + 1, tile_nb, width, tile_size) :
               r \in {raster_task_step(st.tiles, geometry, texture, bin[k], tile_nb,
                                       width, tile_size)} } : TRUE

\* The parallel section run one tile after the other, tile 0 first.
RECURSIVE raster_tiles(_, _, _, _, _, _, _)
raster_tiles(st, geometry, texture, binned_triangles, tile_nb, width, tile_size) ==
    IF tile_nb \notin DOMAIN st.tiles
    THEN st
    ELSE CHOOSE res \in
           { raster_tiles(n, geometry, texture, binned_triangles, tile_nb + 1,
                          width, tile_size) :
               n \in {raster_task(st, geometry, texture, binned_triangles[tile_nb], 1,
                                  tile_nb, width, tile_size)} } : TRUE

(* The blit (rasterizer.rs 270-306).                                       *)

\* pixels_to_copy without the clamp to the remaining width.
pixels_to_copy_unclamped(width, tile_x, tile_size) == tile_size

\* (width - tile_x * tile_size).min(tile_size)
pixels_to_copy(width, tile_x, tile_size) == Min(width - tile_x * tile_size, tile_size)

\* The copy_nonoverlapping calls of the blit, in program order, each as
\* [tile_nb, src, dst, len] counted in pixels: len pixels from index src of
\* the tile's frame_buf to index dst of the frame.
blit_copies(width, height, tile_size) ==
    LET nb_tiles_x == nb_tiles(width, tile_size)
        nb_tiles_y == nb_tiles(height, tile_size)
        copy(k) ==
            LET tile_nb == k \div tile_size
                tile_row == k % tile_size
                tile_x == tile_nb % nb_tiles_x
                tile_y == tile_nb \div nb_tiles_x
                first_pixel_index == tile_x * tile_size + tile_y * tile_size * width
            IN  [tile_nb |-> tile_nb, tile_row |-> tile_row, tile_y |-> tile_y,
                 src |-> tile_row * tile_size,
                 dst |-> first_pixel_index + tile_row * width,
                 len |-> pixels_to_copy(width, tile_x, tile_size)]
        all == [k \in 1..(nb_tiles_x * nb_tiles_y * tile_size) |-> copy(k - 1)]
    IN  \* `break` once tile_row + tile_y * tile_size >= height
        SelectSeq(all, LAMBDA c : c.tile_row + c.tile_y * tile_size < height)

\* The frame after the copies k, k + 1, ... of the blit.  A copy writes the
\* frame indices dst .. dst + len - 1.
RECURSIVE blit_from(_, _, _, _)
blit_from(frame, tiles, copies, k) ==
    IF k > Len(copies)
    THEN frame
    ELSE LET c == copies[k]
         IN  blit_from([i \in DOMAIN frame |->
                          IF c.dst <= i /\ i < c.dst + c.len
                          THEN tiles[c.tile_nb].frame_buf[c.src + (i - c.dst)]
                          ELSE frame[i]],
                       tiles, copies, k + 1)

\* The frame after the blit.
blit(frame, tiles, width, height, tile_size) ==
    blit_from(frame, tiles, blit_copies(width, height, tile_size), 1)

---------------------------------------------------------------------------
(* The Geometry buffer as a state machine: a geometry is staged, then its  *)
(* public methods cull_backface and clip_geometry are called.              *)

\* Number of candidate vertices the staged geometry draws from.
PoolSize == 7
\* Number of Geometry method calls explored after staging.
MaxCalls == 2

\* Candidate vertex positions (x, y, z, w), in units of 0.5e-12.
AllPool ==
    << DVec4(0, 0, 0, 4),     \* inside the frustum
       DVec4(4, 0, 0, 4),     \* on the plane x = w
       DVec4(5, 1, 0, 4),     \* outside x = w by one unit
       DVec4(0, -9, 0, 4),    \* outside y = -w
       DVec4(2, 2, -8, 4),    \* outside z = -w
       DVec4(0, 3, 0, -2),    \* w < 0
       DVec4(-8, 6, 2, 4),    \* outside x = -w and y = w
       DVec4(1, -2, 3, 6),    \* inside
       DVec4(9, 9, 9, 4) >>   \* outside x = w, y = w and z = w
AllPoolUvs ==
    << DVec2(0, 0), DVec2(1, 0), DVec2(1, 1), DVec2(0, 1), DVec2(2, 0),
       DVec2(0, 2), DVec2(1, 2), DVec2(2, 2), DVec2(2, 1) >>

Pool == SubSeq(AllPool, 1, PoolSize)
PoolUvs == SubSeq(AllPoolUvs, 1, PoolSize)

\* The staged triangle lists: every single triangle over the pool, and every
\* pair of triangles sharing an edge that they traverse in opposite
\* directions.
InputTriangles ==
    { <<i, j, k>> : i \in 1..PoolSize, j \in 1..PoolSize, k \in 1..PoolSize }
    \cup { <<t[1], t[2], t[3], t[2], t[1], t[4]>> :
             t \in { u \in (1..PoolSize) \X (1..PoolSize) \X (1..PoolSize) \X (1..PoolSize) :
                       u[1] < u[2] /\ u[2] < u[3] } }

CameraPositions == { DVec3(0, 0, 10), DVec3(0, 0, -10), DVec3(0, 0, 0) }

GeomInit ==
    /\ vertices = Pool
    /\ uvs = PoolUvs
    /\ triangles \in InputTriangles
    /\ calls = <<>>
    /\ prev_triangles = <<>>
    /\ prev_nb_vertices = 0
    /\ RasterUnused
    /\ ShadeUnused
    /\ CatalogUnused
    /\ sample_call = <<>>
    /\ AppUnused

CullBackface ==
    /\ Len(calls) < MaxCalls
    /\ \E camera_position \in CameraPositions :
          /\ triangles' = cull_backface(vertices, triangles, camera_position)
          /\ calls' = Append(calls, [op |-> "cull_backface", camera_position |-> camera_position])
    /\ prev_triangles' = triangles
    /\ prev_nb_vertices' = Len(vertices)
    /\ UNCHANGED <<vertices, uvs, rasterVars, resourceVars, appVars>>

ClipGeometry ==
    /\ Len(calls) < MaxCalls
    /\ \E r \in {clip_geometry(vertices, uvs, triangles)} :
           /\ vertices' = r.vertices
           /\ uvs' = r.uvs
           /\ triangles' = r.triangles
           /\ calls' = Append(calls, [op |-> "clip_geometry", crossings |-> r.crossings])
    /\ prev_triangles' = triangles
    /\ prev_nb_vertices' = Len(vertices)
    /\ UNCHANGED <<rasterVars, resourceVars, appVars>>

GeomNext == CullBackface \/ ClipGeometry

SpecGeom == GeomInit /\ [][GeomNext]_vars

---------------------------------------------------------------------------
(* Properties of the Geometry buffer.                                      *)

LastCall == calls[Len(calls)]
Clipped == calls # <<>> /\ LastCall.op = "clip_geometry"
ClippedTwice ==
    /\ Len(calls) >= 2
    /\ LastCall.op = "clip_geometry"
    /\ calls[Len(calls) - 1].op = "clip_geometry"
Culled == calls # <<>> /\ LastCall.op = "cull_backface"

\* -w <= x <= w, -w <= y <= w, -w <= z <= w
InsideFrustum(v) ==
    \A i \in 1..3 : QLe(QNeg(v[4]), v[i]) /\ QLe(v[i], v[4])
\* The same with each bound relaxed by less than 1e-12.
InsideFrustumWithin(v, eps) ==
    \A i \in 1..3 : /\ QLt(QSub(QNeg(v[4]), v[i]), Q(eps))
                    /\ QLt(QSub(v[i], v[4]), Q(eps))

\* The triangles of an index list, as a set of index triples.
TriangleSet(tris) ==
    { <<tris[3 * k - 2], tris[3 * k - 1], tris[3 * k]>> : k \in 1..(Len(tris) \div 3) }

\* C1 as claimed: after clip_geometry every vertex referenced by an emitted
\* triangle is inside all six clip planes.
C1_AllInside ==
    Clipped => \A i \in 1..Len(triangles) : InsideFrustum(vertices[triangles[i]])

\* C1 amended: after clip_geometry every vertex referenced by an emitted
\* triangle is inside all six clip planes up to the tolerance 1e-12 of the
\* parallel-edge fallback: x - w < 1e-12, -x - w < 1e-12, and so on for y, z.
C1_InsideWithinTolerance ==
    Clipped => \A i \in 1..Len(triangles) :
                   InsideFrustumWithin(vertices[triangles[i]], ParallelEps)

\* C1 witness: a clip that cut an edge (added a vertex) and emitted, through
\* the parallel-edge fallback, a vertex that is outside a plane.
C1_Witness ==
    /\ Clipped
    /\ Len(vertices) > prev_nb_vertices
    /\ \E i \in 1..Len(triangles) : ~InsideFrustum(vertices[triangles[i]])

\* C2 as claimed: a second clip_geometry on the geometry the first
\* clip_geometry produced yields the same set of triangles.
C2_Idempotent ==
    ClippedTwice => TriangleSet(triangles) = TriangleSet(prev_triangles)

\* C2 amended: a second clip_geometry yields the same triangles (and adds no
\* vertex) whenever every vertex referenced by the first run's triangles is
\* inside all six planes, that is, whenever the first run emitted no vertex
\* through the parallel-edge fallback.
C2_IdempotentWhenInside ==
    ( /\ ClippedTwice
      /\ \A i \in 1..Len(prev_triangles) : InsideFrustum(vertices[prev_triangles[i]]) )
    => /\ TriangleSet(triangles) = TriangleSet(prev_triangles)
       /\ Len(vertices) = prev_nb_vertices

\* C2 witness: the second clip of a geometry whose first clip cut edges and
\* emitted triangles, all inside the frustum.
C2_Witness ==
    /\ ClippedTwice
    /\ prev_nb_vertices > PoolSize
    /\ prev_triangles # <<>>
    /\ \A i \in 1..Len(prev_triangles) : InsideFrustum(vertices[prev_triangles[i]])

\* (a - camera_position) . ((b - a) x (c - a)), as the determinant of the
\* three vectors, for triangle k of the list tris.
TripleProduct(verts, tris, k, cam) ==
    LET a == verts[tris[3 * k - 2]]
        b == verts[tris[3 * k - 1]]
        c == verts[tris[3 * k]]
        p == [i \in 1..3 |-> QSub(a[i], cam[i])]
        q == [i \in 1..3 |-> QSub(b[i], a[i])]
        r == [i \in 1..3 |-> QSub(c[i], a[i])]
        m(i, j) == QSub(QMul(q[i], r[j]), QMul(q[j], r[i]))
    IN  QAdd(QMul(p[1], m(2, 3)), QAdd(QMul(p[2], m(3, 1)), QMul(p[3], m(1, 2))))

\* C10: cull_backface keeps triangle (a, b, c) iff
\* (a - camera_position) . ((b - a) x (c - a)) < 0, and the kept triangles
\* stay in their original relative order.
C10_CullKeepsExactlyFacing ==
    Culled =>
      LET cam == LastCall.camera_position
          n == Len(prev_triangles) \div 3
          kept == { k \in 1..n : TripleProduct(vertices, prev_triangles, k, cam)[1] < 0 }
          rank(k) == Cardinality({ j \in kept : j <= k })
      IN  /\ Len(triangles) = 3 * Cardinality(kept)
          /\ \A k \in kept : \A i \in 0..2 :
                 triangles[3 * rank(k) - i] = prev_triangles[3 * k - i]

\* C10 witness: a cull that dropped one triangle and kept another, and a
\* triangle seen edge-on (triple product 0) among those dropped.
C10_Witness ==
    /\ Culled
    /\ Len(prev_triangles) = 6
    /\ Len(triangles) = 3
    /\ \E k \in 1..2 :
          TripleProduct(vertices, prev_triangles, k, LastCall.camera_position)[1] = 0

---------------------------------------------------------------------------
(* The screen_frame loop as a state machine.  App::about_to_wait clears the       *)
(* rasterizer, moves the camera and has process_scene draw every mesh of   *)
(* the scene with one rasterize_threaded call per mesh.                    *)

\* Number of frames explored.
MaxFrames == 2
\* Largest number of meshes in the scene.
MaxMeshes == 2

\* Screen::bg_color
bg_color == <<42, 0, 23, 255>>

\* (width, height, tile_size): a screen of 2 x 2 tiles whose right column and
\* bottom row of tiles reach beyond the screen; a screen that two tiles fit
\* exactly; a screen smaller than its only tile.
Screens == { <<3, 3, 2>>, <<4, 2, 2>>, <<3, 2, 3>> }

R(n, d) == QNorm(n, d)

Some(t) == [is_some |-> TRUE, texture |-> t]
NoTexture == [is_some |-> FALSE, texture |-> <<>>]
Red == [width |-> 1, height |-> 1, format |-> "RGB24", pixels |-> << <<200, 0, 0>> >>]
Green == [width |-> 1, height |-> 1, format |-> "RGB24", pixels |-> << <<0, 200, 0>> >>]
TwoTexels == [width |-> 2, height |-> 1, format |-> "RGBA32",
              pixels |-> << <<10, 20, 30, 128>>, <<40, 50, 60, 255>> >>]

\* The meshes a scene is made of, each as what the stages before the
\* rasterizer make of it: positions (x, y) in fractions of the screen's width
\* and height, depth z, uv, 1/w, triangles, texture.
\*   1  a far quad over the whole screen, red
\*   2  a near quad over the right two thirds of the screen, green
\*   3  a triangle at the depth of the far quad, without texture
\*   4  a triangle sloping from depth 0 to depth 1, with a two-texel texture
Meshes ==
    << [vertices |-> << <<Q(0), Q(0), R(3, 4)>>, <<Q(1), Q(0), R(3, 4)>>,
                        <<Q(1), Q(1), R(3, 4)>>, <<Q(0), Q(1), R(3, 4)>> >>,
        uvs |-> << DVec2(0, 0), DVec2(1, 0), DVec2(1, 1), DVec2(0, 1) >>,
        clip_w_inv |-> << R(1, 20), R(1, 20), R(1, 20), R(1, 20) >>,
        triangles |-> <<1, 2, 3, 1, 3, 4>>,
        texture |-> Some(Red)],
       [vertices |-> << <<R(1, 3), Q(0), R(1, 4)>>, <<Q(1), Q(0), R(1, 4)>>,
                        <<Q(1), Q(1), R(1, 4)>>, <<R(1, 3), Q(1), R(1, 4)>> >>,
        uvs |-> << DVec2(0, 0), DVec2(1, 0), DVec2(1, 1), DVec2(0, 1) >>,
        clip_w_inv |-> << R(1, 10), R(1, 10), R(1, 10), R(1, 10) >>,
        triangles |-> <<1, 2, 3, 1, 3, 4>>,
        texture |-> Some(Green)],
       [vertices |-> << <<Q(0), Q(0), R(3, 4)>>, <<Q(1), Q(0), R(3, 4)>>,
                        <<Q(0), Q(1), R(3, 4)>> >>,
        uvs |-> << DVec2(0, 0), DVec2(1, 0), DVec2(0, 1) >>,
        clip_w_inv |-> << R(1, 20), R(1, 20), R(1, 20) >>,
        triangles |-> <<1, 2, 3>>,
        texture |-> NoTexture],
       [vertices |-> << <<Q(0), Q(0), Q(0)>>, <<Q(1), Q(0), Q(1)>>,
                        <<Q(0), Q(1), R(1, 2)>> >>,
        uvs |-> << DVec2(0, 0), DVec2(1, 0), DVec2(0, 1) >>,
        clip_w_inv |-> << R(1, 5), R(1, 20), R(1, 10) >>,
        triangles |-> <<1, 2, 3>>,
        texture |-> Some(TwoTexels)] >>

\* The world-space normal of the triangles of each mesh
\* (Geometry::triangle_normals).
MeshNormals ==
    << DVec3(0, 0, 1), DVec3(1, 0, 0), DVec3(0, 0, 1), << R(3, 5), Q(0), R(4, 5) >> >>

\* The scene's lights and the shader the application renders with: one light
\* of strength 1 shining along -Z, ambient 0.1, flat shading.
SceneLights == << Light_new(Q(1), <<255, 255, 255>>, AtInfinity(DVec3(0, 0, -1))) >>
SceneShader == Shader_new(R(1, 10), "Flat")

\* The camera poses a frame is rendered from: under pose 1 the scene appears
\* mirrored left to right.
CameraPoses == {0, 1}

\* The geometry process_scene hands to the rasterizer for a mesh: screen
\* space positions (x, y, z, 1).
ScreenGeometry(mesh, pose, w, h) ==
    [vertices |-> [i \in DOMAIN mesh.vertices |->
                     << QMul(IF pose = 1 THEN QSub(Q(1), mesh.vertices[i][1])
                             ELSE mesh.vertices[i][1], Q(w)),
                        QMul(mesh.vertices[i][2], Q(h)),
                        mesh.vertices[i][3], Q(1) >>],
     uvs |-> mesh.uvs,
     clip_w_inv |-> mesh.clip_w_inv,
     triangles |-> mesh.triangles]

\* The scenes: every list of at most MaxMeshes meshes.
Scenes == UNION { [1..n -> 1..Len(Meshes)] : n \in 0..MaxMeshes }

NoHits == [tile_nb \in DOMAIN rasterizer_tiles |-> <<>>]

\* The state of the Geometry buffer while the frame loop is explored.
GeomUnused ==
    /\ vertices = <<>>
    /\ uvs = <<>>
    /\ triangles = <<>>
    /\ calls = <<>>
    /\ prev_triangles = <<>>
    /\ prev_nb_vertices = 0

\* App::new and Screen::initialize_pixels: Rasterizer::new, a zeroed frame.
RasterInit ==
    /\ GeomUnused
    /\ \E s \in Screens : /\ screen_width = s[1]
                          /\ screen_height = s[2]
                          /\ rasterizer_tile_size = s[3]
    /\ rasterizer_tiles = new_tiles(rasterizer_tile_size, screen_width, screen_height)
    /\ screen_frame = [i \in 0..(screen_width * screen_height - 1) |-> <<0, 0, 0, 0>>]
    /\ meshes \in Scenes
    /\ camera = 0
    /\ pc = "wait"
    /\ mesh_index = 0
    /\ cur_it = 0
    /\ task_bins = <<>>
    /\ task_pc = <<>>
    /\ frame_hits = NoHits
    /\ blit_log = <<>>
    /\ frame_start = [tiles |-> rasterizer_tiles, frame |-> screen_frame,
                      before_clear |-> rasterizer_tiles]
    /\ draw_start = [tiles |-> rasterizer_tiles, frame |-> screen_frame]
    /\ accesses = {}
    /\ lights = SceneLights
    /\ shader = SceneShader
    /\ shade_call = <<>>
    /\ CatalogUnused
    /\ sample_call = <<>>
    /\ AppUnused

\* Pipeline::clear, which about_to_wait calls: it clears the tiles of the
\* pipeline's rasterizer.  (pipeline/mod.rs as given predates the Rasterizer;
\* this is the call the specification describes: tile depth is reset to
\* +infinity between frames, tile colour is not.)
Pipeline_clear(t) == clear(t)

\* The start of a frame (app.rs 302-312): Pipeline::clear, then next_frame
\* moves the camera and enters process_scene.
AboutToWait ==
    /\ pc = "wait"
    /\ cur_it < MaxFrames
    /\ rasterizer_tiles' = Pipeline_clear(rasterizer_tiles)
    /\ camera' \in CameraPoses
    /\ pc' = "process_scene"
    /\ mesh_index' = 1
    /\ frame_hits' = NoHits
    /\ frame_start' = [tiles |-> rasterizer_tiles', frame |-> screen_frame,
                       before_clear |-> rasterizer_tiles]
    /\ UNCHANGED <<screen_width, screen_height, rasterizer_tile_size, screen_frame, meshes, cur_it, task_bins,
                   task_pc, blit_log, draw_start, accesses, geomVars, resourceVars, appVars>>

\* The geometry and the texture of the draw call of mesh m of the scene.
DrawGeometry(m) == ScreenGeometry(Meshes[meshes[m]], camera, screen_width, screen_height)
DrawTexture(m) == Meshes[meshes[m]].texture

\* The hits of a draw call, tagged with the number of the draw call.
Tagged(h, m) ==
    [tile_nb \in DOMAIN h |->
        [k \in DOMAIN h[tile_nb] |->
            [draw |-> m, pixel_index |-> h[tile_nb][k].pixel_index,
             triangle_start |-> h[tile_nb][k].triangle_start,
             depth |-> h[tile_nb][k].depth, color |-> h[tile_nb][k].color,
             uv |-> h[tile_nb][k].uv, drawn |-> h[tile_nb][k].drawn]]]

\* The frame indices each tile's blit writes, in the order written.
BlitLog ==
    LET copies == blit_copies(screen_width, screen_height, rasterizer_tile_size)
        RECURSIVE log(_, _)
        log(tile_nb, k) ==
            IF k > Len(copies) THEN <<>>
            ELSE (IF copies[k].tile_nb = tile_nb
                  THEN [j \in 1..copies[k].len |-> copies[k].dst + j - 1]
                  ELSE <<>>) \o log(tile_nb, k + 1)
    IN  [tile_nb \in DOMAIN rasterizer_tiles |-> log(tile_nb, 1)]

\* Rasterizer::rasterize_threaded of one geometry on [tiles, frame]: binning,
\* the tile tasks, the blit.  The result is [tiles, frame, hits].
rasterize_threaded(t, f, geometry, texture) ==
    CHOOSE res \in
      { [tiles |-> r.tiles, hits |-> r.hits,
         frame |-> blit(f, r.tiles, screen_width, screen_height, rasterizer_tile_size)] :
          r \in { raster_tiles([tiles |-> t, hits |-> [n \in DOMAIN t |-> <<>>]],
                               geometry, texture, b, 0, screen_width, rasterizer_tile_size) :
                    b \in {bin_triangles(geometry, screen_width, screen_height, rasterizer_tile_size)} } } : TRUE

\* The draw call process_scene makes for a mesh, on the pipeline's rasterizer.
\* (As for Pipeline::clear: pipeline/mod.rs as given calls its own older
\* `rasterize` here.)
Pipeline_rasterize(t, f, geometry, texture) == rasterize_threaded(t, f, geometry, texture)

\* One iteration of the mesh loop of process_scene: the draw call of the
\* next mesh, as a whole.
DrawMesh ==
    /\ pc = "process_scene"
    /\ mesh_index <= Len(meshes)
    /\ \E r \in {Pipeline_rasterize(rasterizer_tiles, screen_frame, DrawGeometry(mesh_index),
                                    DrawTexture(mesh_index))} :
          /\ rasterizer_tiles' = r.tiles
          /\ screen_frame' = r.frame
          /\ frame_hits' = [tile_nb \in DOMAIN frame_hits |->
                        frame_hits[tile_nb] \o Tagged(r.hits, mesh_index)[tile_nb]]
    /\ blit_log' = BlitLog
    /\ draw_start' = [tiles |-> rasterizer_tiles, frame |-> screen_frame]
    /\ mesh_index' = mesh_index + 1
    /\ UNCHANGED <<screen_width, screen_height, rasterizer_tile_size, meshes, camera, pc, cur_it,
                   task_bins, task_pc, frame_start, accesses, geomVars, resourceVars, appVars>>

\* The end of process_scene and of the frame: cur_it += 1, request_redraw.
EndFrame ==
    /\ pc = "process_scene"
    /\ mesh_index > Len(meshes)
    /\ pc' = "wait"
    /\ cur_it' = cur_it + 1
    /\ UNCHANGED <<screen_width, screen_height, rasterizer_tile_size, rasterizer_tiles, screen_frame, meshes, camera, mesh_index,
                   task_bins, task_pc, frame_hits, blit_log, frame_start, draw_start,
                   accesses, geomVars, resourceVars, appVars>>

RasterNext == AboutToWait \/ DrawMesh \/ EndFrame

SpecRaster == RasterInit /\ [][RasterNext]_vars

---------------------------------------------------------------------------
(* The draw call in steps: binning, then the tile tasks of the parallel    *)
(* section, one binned triangle of one tile per step and in any order,     *)
(* then, once every task has finished, the blit.                           *)

\* Largest number of meshes in the scene when the draw calls are explored in
\* steps.
MaxTiledMeshes == 2

\* The first frame has been started: the rasterizer is cleared, the camera
\* is in some pose and process_scene is about to draw the first mesh.
TilesInit ==
    /\ GeomUnused
    /\ \E s \in Screens : /\ screen_width = s[1]
                          /\ screen_height = s[2]
                          /\ rasterizer_tile_size = s[3]
    /\ rasterizer_tiles = Pipeline_clear(new_tiles(rasterizer_tile_size, screen_width,
                                                   screen_height))
    /\ screen_frame = [i \in 0..(screen_width * screen_height - 1) |-> <<0, 0, 0, 0>>]
    /\ meshes \in UNION { [1..n -> 1..Len(Meshes)] : n \in 0..MaxTiledMeshes }
    /\ camera \in CameraPoses
    /\ pc = "process_scene"
    /\ mesh_index = 1
    /\ cur_it = 0
    /\ task_bins = <<>>
    /\ task_pc = <<>>
    /\ frame_hits = NoHits
    /\ blit_log = <<>>
    /\ frame_start = [tiles |-> rasterizer_tiles, frame |-> screen_frame,
                      before_clear |-> rasterizer_tiles]
    /\ draw_start = [tiles |-> rasterizer_tiles, frame |-> screen_frame]
    /\ accesses = {}
    /\ ShadeUnused
    /\ CatalogUnused
    /\ sample_call = <<>>
    /\ AppUnused

AllTasksDone == \A tile_nb \in DOMAIN task_pc : task_pc[tile_nb] > Len(task_bins[tile_nb])

\* rasterizer.rs 61-129: the start of rasterize_threaded for the next mesh.
BinTriangles ==
    /\ pc = "process_scene"
    /\ mesh_index <= Len(meshes)
    /\ task_bins' = bin_triangles(DrawGeometry(mesh_index), screen_width, screen_height,
                                  rasterizer_tile_size)
    /\ task_pc' = [tile_nb \in DOMAIN rasterizer_tiles |-> 1]
    /\ pc' = "raster"
    /\ draw_start' = [tiles |-> rasterizer_tiles, frame |-> screen_frame]
    /\ accesses' = {}
    /\ UNCHANGED <<screen_width, screen_height, rasterizer_tile_size, rasterizer_tiles,
                   screen_frame, meshes, camera, mesh_index, cur_it, frame_hits,
                   blit_log, frame_start, geomVars, resourceVars, appVars>>

\* rasterizer.rs 145-268: the task of tile tile_nb rasterizes the next
\* triangle of its bin.
RasterStep(tile_nb) ==
    /\ pc = "raster"
    /\ task_pc[tile_nb] <= Len(task_bins[tile_nb])
    /\ \E r \in {raster_task_step(rasterizer_tiles, DrawGeometry(mesh_index),
                                  DrawTexture(mesh_index),
                                  task_bins[tile_nb][task_pc[tile_nb]], tile_nb,
                                  screen_width, rasterizer_tile_size)} :
          /\ rasterizer_tiles' = r.tiles
          /\ frame_hits' = [frame_hits EXCEPT ![tile_nb] =
                              @ \o Tagged([t \in {tile_nb} |-> r.hits], mesh_index)[tile_nb]]
    /\ task_pc' = [task_pc EXCEPT ![tile_nb] = @ + 1]
    /\ accesses' = accesses \cup
                     { [task |-> tile_nb, buffer |-> "frame_buf",
                        tile |-> get_buffers(tile_nb)[1]],
                       [task |-> tile_nb, buffer |-> "depth_buf",
                        tile |-> get_buffers(tile_nb)[2]] }
    /\ UNCHANGED <<screen_width, screen_height, rasterizer_tile_size, screen_frame,
                   meshes, camera, pc, mesh_index, cur_it, task_bins, blit_log,
                   frame_start, draw_start, geomVars, resourceVars, appVars>>

\* rasterizer.rs 270-306: for_each has returned, the orchestrating thread
\* copies the tiles to the frame and rasterize_threaded returns.
Blit ==
    /\ pc = "raster"
    /\ AllTasksDone
    /\ screen_frame' = blit(screen_frame, rasterizer_tiles, screen_width, screen_height,
                            rasterizer_tile_size)
    /\ blit_log' = BlitLog
    /\ pc' = "process_scene"
    /\ mesh_index' = mesh_index + 1
    /\ UNCHANGED <<screen_width, screen_height, rasterizer_tile_size, rasterizer_tiles,
                   meshes, camera, cur_it, task_bins, task_pc, frame_hits, frame_start,
                   draw_start, accesses, geomVars, resourceVars, appVars>>

TilesNext ==
    \/ BinTriangles
    \/ \E tile_nb \in DOMAIN rasterizer_tiles : RasterStep(tile_nb)
    \/ Blit

SpecTiles == TilesInit /\ [][TilesNext]_vars

---------------------------------------------------------------------------
(* Properties of the rasterizer in the frame loop.                         *)

TilePixels == 0..(rasterizer_tile_size * rasterizer_tile_size - 1)
FrameEnded == pc = "wait" /\ cur_it > 0

\* The hits of this frame at pixel p of a tile, in drawing order.
HitsAt(tile_nb, p) == SelectSeq(frame_hits[tile_nb], LAMBDA h : h.pixel_index = p)

\* The screen position of pixel p of a tile, and its index in the frame
\* (-1 for a tile pixel beyond the screen).
ScreenX(tile_nb, p) ==
    (tile_nb % nb_tiles(screen_width, rasterizer_tile_size)) * rasterizer_tile_size
      + (p % rasterizer_tile_size)
ScreenY(tile_nb, p) ==
    (tile_nb \div nb_tiles(screen_width, rasterizer_tile_size)) * rasterizer_tile_size
      + (p \div rasterizer_tile_size)
ScreenIndex(tile_nb, p) ==
    IF ScreenX(tile_nb, p) < screen_width /\ ScreenY(tile_nb, p) < screen_height
    THEN ScreenY(tile_nb, p) * screen_width + ScreenX(tile_nb, p)
    ELSE -1

\* C3: for two triangles T1 drawn before T2 that both cover a pixel, T2
\* writes the pixel only if its depth there is strictly less than T1's (at
\* equal depth the earlier colour stays); so the pixel shows the colour of
\* the first of the nearest triangles covering it.
C3_DepthTestMonotone ==
    \A tile_nb \in DOMAIN frame_hits : \A p \in TilePixels :
        LET hs == HitsAt(tile_nb, p)
        IN  /\ \A i, j \in 1..Len(hs) :
                  (i < j /\ hs[j].drawn) => QLt(hs[j].depth, hs[i].depth)
            /\ hs # <<>> =>
                 \E i \in 1..Len(hs) :
                    /\ \A j \in 1..Len(hs) :
                          IF j < i THEN QLt(hs[i].depth, hs[j].depth)
                          ELSE QLe(hs[i].depth, hs[j].depth)
                    /\ rasterizer_tiles[tile_nb].frame_buf[p] = hs[i].color

\* C3 witness: at one pixel a later draw call's triangle of equal depth and
\* another colour was rejected; at another pixel a later, nearer triangle was
\* drawn over an earlier one.
C3_Witness ==
    \E tile_nb \in DOMAIN frame_hits : \E p, q \in TilePixels :
        /\ \E i, j \in 1..Len(HitsAt(tile_nb, p)) :
              /\ i < j
              /\ HitsAt(tile_nb, p)[i].depth = HitsAt(tile_nb, p)[j].depth
              /\ HitsAt(tile_nb, p)[i].color # HitsAt(tile_nb, p)[j].color
              /\ ~HitsAt(tile_nb, p)[j].drawn
              /\ rasterizer_tiles[tile_nb].frame_buf[p] = HitsAt(tile_nb, p)[i].color
        /\ \E i, j \in 1..Len(HitsAt(tile_nb, q)) :
              /\ i < j
              /\ HitsAt(tile_nb, q)[i].drawn
              /\ HitsAt(tile_nb, q)[j].drawn
              /\ QLt(HitsAt(tile_nb, q)[j].depth, HitsAt(tile_nb, q)[i].depth)

\* A mesh all of whose vertices have one depth, and that depth.
FlatDepth(m) ==
    \A i \in DOMAIN Meshes[m].vertices :
        Meshes[m].vertices[i][3] = Meshes[m].vertices[1][3]
DepthOf(m) == Meshes[m].vertices[1][3]

\* The frame a scene of two meshes gives when drawn second mesh first, from
\* the tiles and the frame this frame started with.
FrameInReverseOrder ==
    LET first == rasterize_threaded(frame_start.tiles, frame_start.frame,
                                    DrawGeometry(2), DrawTexture(2))
    IN  rasterize_threaded(first.tiles, first.frame,
                           DrawGeometry(1), DrawTexture(1)).frame

\* The frame indices both draw calls of this frame covered.
Overlap ==
    { ScreenIndex(tile_nb, p) : tile_nb \in DOMAIN frame_hits, p \in TilePixels }
      \cap { i \in DOMAIN screen_frame :
               \E tile_nb \in DOMAIN frame_hits : \E p \in TilePixels :
                  /\ ScreenIndex(tile_nb, p) = i
                  /\ \E k \in 1..Len(HitsAt(tile_nb, p)) : HitsAt(tile_nb, p)[k].draw = 1
                  /\ \E k \in 1..Len(HitsAt(tile_nb, p)) : HitsAt(tile_nb, p)[k].draw = 2 }

TileX0(tile_nb) == ScreenX(tile_nb, 0)
TileY0(tile_nb) == ScreenY(tile_nb, 0)
\* The frame indices of the part of the tile that is on the screen:
\* min(T, W - x0) columns by min(T, H - y0) rows.
TileRegion(tile_nb) ==
    { (TileY0(tile_nb) + r) * screen_width + TileX0(tile_nb) + c :
        r \in 0..(Min(rasterizer_tile_size, screen_height - TileY0(tile_nb)) - 1),
        c \in 0..(Min(rasterizer_tile_size, screen_width - TileX0(tile_nb)) - 1) }

\* C5: the blit of a tile at (x0, y0) writes exactly the min(T, W - x0) by
\* min(T, H - y0) pixels of the tile's part of the screen, each once and with
\* the tile's pixel; the tiles' regions do not overlap; nothing is written
\* outside the W * H pixels (W * H * 4 bytes) of the frame.
C5_BlitExactRegion ==
    blit_log # <<>> =>
      \A tile_nb \in DOMAIN blit_log :
         LET log == blit_log[tile_nb]
         IN  /\ { log[k] : k \in 1..Len(log) } = TileRegion(tile_nb)
             /\ Len(log) = Min(rasterizer_tile_size, screen_width - TileX0(tile_nb))
                           * Min(rasterizer_tile_size, screen_height - TileY0(tile_nb))
             /\ \A k \in 1..Len(log) : 0 <= log[k] /\ log[k] < screen_width * screen_height
             /\ \A other \in DOMAIN blit_log \ {tile_nb} :
                   { log[k] : k \in 1..Len(log) }
                     \cap { blit_log[other][k] : k \in 1..Len(blit_log[other]) } = {}
             /\ \A p \in TilePixels :
                   ScreenIndex(tile_nb, p) # -1 =>
                      screen_frame[ScreenIndex(tile_nb, p)]
                        = rasterizer_tiles[tile_nb].frame_buf[p]

\* C5 witness: a blit of a tile that reaches beyond the right and the bottom
\* edge of the screen, after a draw call that wrote that tile.
C5_Witness ==
    /\ blit_log # <<>>
    /\ \E tile_nb \in DOMAIN blit_log :
          /\ TileX0(tile_nb) + rasterizer_tile_size > screen_width
          /\ TileY0(tile_nb) + rasterizer_tile_size > screen_height
          /\ TileX0(tile_nb) > 0 /\ TileY0(tile_nb) > 0
          /\ Len(blit_log[tile_nb]) = 1
          /\ rasterizer_tiles[tile_nb].frame_buf[0] # <<0, 0, 0, 0>>

\* A frame index no triangle drawn in this frame covered.
Uncovered(i) ==
    \A tile_nb \in DOMAIN frame_hits : \A p \in TilePixels :
        ScreenIndex(tile_nb, p) = i => HitsAt(tile_nb, p) = <<>>

\* C6: at the end of every frame, each pixel of the frame that no triangle
\* drawn in that frame covers holds the background colour.
C6_UncoveredIsBackground ==
    FrameEnded => \A i \in DOMAIN screen_frame : Uncovered(i) => screen_frame[i] = bg_color

\* The least depth among the hits hs (not empty).
MinDepth(hs) ==
    hs[CHOOSE i \in 1..Len(hs) : \A j \in 1..Len(hs) : QLe(hs[i].depth, hs[j].depth)].depth

---------------------------------------------------------------------------
(* Properties of the parallel section.                                     *)

\* C7: a tile's buffers change only in a step of the tile's own task; every
\* buffer a task reads or writes is a buffer of its own tile; the frame
\* changes only in the blit, which happens once every tile task of the draw
\* call has finished.
C7_TileOwnership ==
    [][ /\ \A tile_nb \in DOMAIN rasterizer_tiles :
              ( /\ pc = "raster"
                /\ rasterizer_tiles'[tile_nb] # rasterizer_tiles[tile_nb] )
              => task_pc'[tile_nb] = task_pc[tile_nb] + 1
        /\ \A a \in accesses' : a.tile = a.task
        /\ screen_frame' # screen_frame
              => (pc = "raster" /\ AllTasksDone /\ pc' = "process_scene") ]_vars

\* C7 witness: two tile tasks are both half way through their bins, each
\* having written its own tile.
C7_Witness ==
    /\ pc = "raster"
    /\ \E t1, t2 \in DOMAIN task_pc :
          /\ t1 # t2
          /\ task_pc[t1] = 2 /\ Len(task_bins[t1]) = 2
          /\ task_pc[t2] = 2 /\ Len(task_bins[t2]) = 2
          /\ rasterizer_tiles[t1] # draw_start.tiles[t1]
          /\ rasterizer_tiles[t2] # draw_start.tiles[t2]
          /\ \E a \in accesses : a.task = t1
          /\ \E a \in accesses : a.task = t2

\* C8: whatever the order in which the tile tasks took their steps, when
\* they have all finished the tiles are those that running the tasks one
\* after the other gives, and after the blit the tiles and the frame are
\* those of the draw call run as a whole.
C8_ScheduleUnobservable ==
    /\ (pc = "raster" /\ AllTasksDone) =>
          rasterizer_tiles =
            raster_tiles([tiles |-> draw_start.tiles,
                          hits |-> [n \in DOMAIN rasterizer_tiles |-> <<>>]],
                         DrawGeometry(mesh_index), DrawTexture(mesh_index),
                         task_bins, 0, screen_width, rasterizer_tile_size).tiles
    /\ (pc \in {"process_scene", "wait"} /\ mesh_index > 1) =>
          \E r \in {rasterize_threaded(draw_start.tiles, draw_start.frame,
                                       DrawGeometry(mesh_index - 1),
                                       DrawTexture(mesh_index - 1))} :
             /\ rasterizer_tiles = r.tiles
             /\ screen_frame = r.frame

\* C8 witness: the tasks run in another order than one after the other from
\* tile 0 on: the task of the last tile has finished and written its tile in
\* the second draw call of the frame, while the task of tile 0 has not
\* started on its bin.
C8_Witness ==
    /\ pc = "raster"
    /\ mesh_index = 2
    /\ task_pc[0] = 1
    /\ Len(task_bins[0]) > 0
    /\ \E last \in DOMAIN task_pc :
          /\ last > 0
          /\ \A t \in DOMAIN task_pc : t <= last
          /\ Len(task_bins[last]) > 0
          /\ task_pc[last] > Len(task_bins[last])
          /\ rasterizer_tiles[last] # draw_start.tiles[last]

---------------------------------------------------------------------------
(* resources/loaders.rs: MeshLoader::load_default_mesh(DefaultMesh::Cube)  *)
(* and the cull_backface call of Pipeline::process_scene on it.            *)

\* The eight corners of the cube (loaders.rs 123-135): each coordinate is 0
\* or size, minus half_size.
cube_corners(size) ==
    LET half_size == QDiv(Q(size), Q(2))
        corner(x, y, z) == << QSub(Q(x), half_size), QSub(Q(y), half_size),
                              QSub(Q(z), half_size) >>
    IN  << corner(0, 0, 0), corner(size, 0, 0), corner(size, 0, size),
           corner(0, 0, size), corner(0, size, 0), corner(size, size, 0),
           corner(size, size, size), corner(0, size, size) >>

\* The corner (0-based, as in the source) of each of the 24 vertices pushed
\* by loaders.rs 147-175: faces -X, +X, -Y, +Y, -Z, +Z.
cube_vertex_corners ==
    << 4, 0, 3, 7,   1, 5, 6, 2,   0, 1, 2, 3,
       5, 4, 7, 6,   4, 5, 1, 0,   3, 2, 6, 7 >>

\* The uv (0-based index into cube_uvs) of the four vertices of a face.
cube_vertex_uvs == << 0, 1, 3, 2 >>
cube_uvs == << DVec2(0, 0), DVec2(1, 0), DVec2(0, 1), DVec2(1, 1) >>

\* Vertex::new (mesh.rs 161-166): the position gets w = 1.
Vertex_new(position, uv) ==
    [position |-> <<position[1], position[2], position[3], Q(1)>>, uv |-> uv]

\* cube_face_triangles with both triangles of the face wound the other way.
cube_face_triangles_cw(i) ==
    << 4 * i + 0, 4 * i + 2, 4 * i + 1, 4 * i + 2, 4 * i + 0, 4 * i + 3 >>

\* The two triangles of face i (loaders.rs 178-187), as 0-based indices.
cube_face_triangles(i) ==
    << 4 * i + 0, 4 * i + 1, 4 * i + 2, 4 * i + 2, 4 * i + 3, 4 * i + 0 >>

\* The Mesh of DefaultMesh::Cube(size).
load_default_mesh(size) ==
    [ local_vertices |->
          [ k \in 1..24 |->
              Vertex_new(cube_corners(size)[cube_vertex_corners[k] + 1],
                         cube_uvs[cube_vertex_uvs[((k - 1) % 4) + 1] + 1]) ],
      triangles |->
          cube_face_triangles(0) \o cube_face_triangles(1) \o cube_face_triangles(2)
          \o cube_face_triangles(3) \o cube_face_triangles(4) \o cube_face_triangles(5) ]

\* Geometry::from_mesh (geometry.rs 52-70); the indices become 1-based, as
\* sequences are.  The mesh transform of a new Mesh is the identity
\* (mesh.rs 42), so the world-space vertices are the local ones.
from_mesh(mesh) ==
    [ vertices |-> [k \in DOMAIN mesh.local_vertices |-> mesh.local_vertices[k].position],
      uvs |-> [k \in DOMAIN mesh.local_vertices |-> mesh.local_vertices[k].uv],
      triangles |-> [k \in DOMAIN mesh.triangles |-> mesh.triangles[k] + 1] ]

\* Largest side length of the cubes loaded.
MaxCubeSize == 12

\* Camera positions in world space; the second group sees the cube from a
\* corner or an edge.
CubeCameras ==
    { DVec3(0, 0, 5), DVec3(0, 0, -5), DVec3(5, 0, 0), DVec3(0, -5, 0),
      DVec3(5, 5, 5), DVec3(-5, 5, 5), DVec3(7, 0, 7), DVec3(0, -7, 7),
      DVec3(0, 0, 0), DVec3(3, 3, 9) }

CubeInit ==
    /\ \E size \in 1..MaxCubeSize :
          \E g \in { from_mesh(load_default_mesh(size)) } :
              /\ vertices = g.vertices
              /\ uvs = g.uvs
              /\ triangles = g.triangles
    /\ calls = <<>>
    /\ prev_triangles = <<>>
    /\ prev_nb_vertices = 0
    /\ RasterUnused
    /\ ShadeUnused
    /\ CatalogUnused
    /\ sample_call = <<>>
    /\ AppUnused

\* process_scene, mod.rs 48: the one cull of a draw call.
CullCube ==
    /\ calls = <<>>
    /\ \E camera_position \in CubeCameras :
          /\ triangles' = cull_backface(vertices, triangles, camera_position)
          /\ calls' = Append(calls, [op |-> "cull_backface", camera_position |-> camera_position])
    /\ prev_triangles' = triangles
    /\ prev_nb_vertices' = Len(vertices)
    /\ UNCHANGED <<vertices, uvs, rasterVars, resourceVars, appVars>>

SpecCube == CubeInit /\ [][CullCube]_vars

\* The side length of the loaded cube, read back from its first vertex
\* (corner 4 = (-half, +half, -half)).
CubeSide == QMul(Q(2), vertices[1][2])
CulledFromZ5 == Culled /\ LastCall.camera_position = DVec3(0, 0, 5)
\* The 1-based vertex indices of face i (0-based: -X, +X, -Y, +Y, -Z, +Z).
FaceOf(index) == (index - 1) \div 4

\* C11 as claimed: for the cube centred at the origin and the camera at
\* (0,0,5), backface culling leaves exactly 3 faces' worth of triangles
\* (6 triangles).
C11_ThreeFacesLeft ==
    CulledFromZ5 => Len(triangles) = 3 * 6

\* C11 amended: for the cube centred at the origin and the camera at
\* (0,0,5), backface culling leaves exactly 1 face's worth of triangles (the
\* 2 triangles of the +Z face) when the cube's side is below 10, and no
\* triangle when the side is 10 or more; never 6 faces' worth.
C11_OneFaceLeft ==
    CulledFromZ5 =>
        IF QLt(CubeSide, Q(10))
        THEN /\ Len(triangles) = 3 * 2
             /\ triangles = SubSeq(prev_triangles, 31, 36)
             /\ \A i \in 1..6 : FaceOf(triangles[i]) = 5
        ELSE triangles = <<>>

\* C11 witness: the cull from (0,0,5) of the 12 triangles of a cube whose
\* side is below 10 has run and kept triangles.
C11_Witness ==
    /\ CulledFromZ5
    /\ Len(prev_triangles) = 36
    /\ QLt(CubeSide, Q(10))
    /\ triangles # <<>>

---------------------------------------------------------------------------
(* clip_geometry on triangles that straddle the near plane or share an     *)
(* edge.  In clip space the near plane is z = -w (transforms.rs 43-46:     *)
(* a view-space z of -n gives z_clip = -n and w = n), the plane ZN.        *)

\* Candidate vertex positions (x, y, z, w), in units of 0.5e-12.
ClipPool ==
    << DVec4(0, 0, 4, 4),                  \* inside, on z = w
       DVec4(2, 2, -3, 4),                 \* inside
       DVec4(-2, 1, 0, 4),                 \* inside
       DVec4(0, 0, -8, 4),                 \* outside z = -w only
       DVec4(8, 0, -8, 4),                 \* outside z = -w and x = w
       << Q(1), Q(0), R(-7, 2), Q(4) >>,   \* inside z = -w by half a unit
       DVec4(1, 1, -5, 4),                 \* outside z = -w by one unit
       DVec4(0, 6, 0, 4) >>                \* outside y = w only
ClipPoolUvs ==
    << DVec2(0, 0), DVec2(1, 0), DVec2(1, 1), DVec2(0, 1), DVec2(2, 0),
       DVec2(0, 2), DVec2(1, 2), DVec2(2, 2) >>

ClipIndices == 1..Len(ClipPool)

\* The staged triangle lists: every triangle over three distinct vertices,
\* and every pair of triangles that share an edge, the second traversing it
\* in the opposite or in the same direction.
ClipInputs ==
    { t \in ClipIndices \X ClipIndices \X ClipIndices :
          Cardinality({t[1], t[2], t[3]}) = 3 }
    \cup UNION { { <<t[1], t[2], t[3], t[2], t[1], t[4]>>,
                   <<t[1], t[2], t[3], t[1], t[2], t[4]>> } :
                 t \in { u \in ClipIndices \X ClipIndices \X ClipIndices \X ClipIndices :
                           /\ u[1] < u[2]
                           /\ Cardinality({u[1], u[2], u[3], u[4]}) = 4 } }

ClipInit ==
    /\ vertices = ClipPool
    /\ uvs = ClipPoolUvs
    /\ triangles \in ClipInputs
    /\ calls = <<>>
    /\ prev_triangles = <<>>
    /\ prev_nb_vertices = 0
    /\ RasterUnused
    /\ ShadeUnused
    /\ CatalogUnused
    /\ sample_call = <<>>
    /\ AppUnused

SpecClip == ClipInit /\ [][ClipGeometry]_vars

\* ---- properties ----

PlaneNormal(plane_type) ==
    (CHOOSE h \in { hyperplanes[p] : p \in DOMAIN hyperplanes } : h[1] = plane_type)[2]

\* The edge a -> b is treated as parallel to the plane: |(b - a) . n| < 1e-12.
NearlyParallel(a, b, plane_n) ==
    QLt(QAbs(dot4(sub(b, a), plane_n)), Q(ParallelEps))

\* Pairs of crossings of this call that are the same edge of the input
\* geometry (same unordered pair of vertex indices), cut by the same plane,
\* in two different triangles.
SharedCrossings ==
    LET cr == LastCall.crossings
    IN  { p \in (DOMAIN cr) \X (DOMAIN cr) :
            /\ p[1] < p[2]
            /\ cr[p[1]].triangle_index_start # cr[p[2]].triangle_index_start
            /\ cr[p[1]].plane = cr[p[2]].plane
            /\ {cr[p[1]].ai, cr[p[1]].bi} = {cr[p[2]].ai, cr[p[2]].bi}
            /\ cr[p[1]].ai <= prev_nb_vertices
            /\ cr[p[1]].bi <= prev_nb_vertices }

\* For the shared crossing p: exactly one vertex and one uv were appended for
\* the edge and plane, it lies on the plane, and both polygons received its
\* index.
OneVertexForBoth(p) ==
    LET cr == LastCall.crossings
        e == cr[p[1]]
        f == cr[p[2]]
        same == { k \in DOMAIN cr : /\ cr[k].plane = e.plane
                                    /\ {cr[k].ai, cr[k].bi} = {e.ai, e.bi} }
    IN  /\ Cardinality({ k \in same : cr[k].appended }) = 1
        /\ e.ci = f.ci
        /\ e.ci > prev_nb_vertices
        /\ e.ci <= Len(vertices)
        /\ Len(uvs) = Len(vertices)
        /\ Cardinality({ cr[k].ci : k \in { j \in DOMAIN cr : cr[j].appended } })
               = Len(vertices) - prev_nb_vertices
        /\ dot4(PlaneNormal(e.plane), vertices[e.ci]) = Q(0)

\* C12 as claimed: within one clip_geometry call, an edge shared by two
\* triangles (in either direction) that has one end inside and one end
\* outside a plane gets exactly one intersection vertex and one uv, and both
\* clipped polygons reference that vertex index.
C12_SharedEdgeOneVertex ==
    Clipped => \A p \in SharedCrossings : OneVertexForBoth(p)

\* C12 amended: the same, for a shared edge that is not within 1e-12 of
\* parallel to the plane (|(b - a) . n| >= 1e-12); a nearly parallel edge
\* gets no intersection vertex at all.
C12_SharedEdgeOneVertexUnlessParallel ==
    Clipped =>
      \A p \in SharedCrossings :
        LET e == LastCall.crossings[p[1]]
        IN  IF NearlyParallel(vertices[e.ai], vertices[e.bi], PlaneNormal(e.plane))
            THEN e.ci = 0 /\ LastCall.crossings[p[2]].ci = 0
            ELSE OneVertexForBoth(p)

\* C12 witness: a clip in which two triangles traversed a shared edge in
\* opposite directions across a plane and received the same new vertex.
C12_Witness ==
    /\ Clipped
    /\ \E p \in SharedCrossings :
          LET e == LastCall.crossings[p[1]]
              f == LastCall.crossings[p[2]]
          IN  /\ e.ai = f.bi /\ e.bi = f.ai
              /\ e.appended /\ ~f.appended
              /\ e.ci = f.ci /\ e.ci > prev_nb_vertices


\* ---- C13: one vertex outside the near plane ----

NearPlane == PlaneNormal("ZN")
OutsidePlane(plane_n, v) == QLt(Q(0), dot4(plane_n, v))
InsideOtherFive(v) ==
    \A p \in DOMAIN hyperplanes :
        hyperplanes[p][1] # "ZN" => ~OutsidePlane(hyperplanes[p][2], v)

\* The first clip_geometry call has run on a single triangle.
ClippedOneTriangle == Len(calls) = 1 /\ Clipped /\ Len(prev_triangles) = 3

\* Vertex o of the input triangle is outside the near plane and the other
\* two are inside all six planes.
OneOutsideNear(o) ==
    /\ OutsidePlane(NearPlane, vertices[prev_triangles[o]])
    /\ \A i \in (1..3) \ {o} : InsideFrustum(vertices[prev_triangles[i]])

\* C13 as claimed: a triangle with exactly one vertex outside the near plane
\* and the other two inside all six planes is replaced by exactly two
\* triangles whose vertices are all inside the frustum.
C13_OneOutsideGivesQuad ==
    ClippedOneTriangle =>
      \A o \in 1..3 :
        OneOutsideNear(o) =>
          /\ Len(triangles) = 3 * 2
          /\ \A i \in 1..Len(triangles) : InsideFrustum(vertices[triangles[i]])

\* The outside vertex o is inside the other five planes, and neither edge to
\* it is within 1e-12 of parallel to the near plane.
OnlyNearAndNotParallel(o) ==
    /\ InsideOtherFive(vertices[prev_triangles[o]])
    /\ \A i \in (1..3) \ {o} :
          ~NearlyParallel(vertices[prev_triangles[i]], vertices[prev_triangles[o]],
                          NearPlane)

\* C13 amended: when, in addition, the outside vertex is inside the other
\* five planes and neither edge to it is within 1e-12 of parallel to the near
\* plane, the triangle is replaced by exactly two triangles, the fan of a
\* quad made of the two inside vertices and two new vertices on the near
\* plane, all inside the frustum.
C13_OneOutsideNearOnlyGivesQuad ==
    ClippedOneTriangle =>
      \A o \in 1..3 :
        (OneOutsideNear(o) /\ OnlyNearAndNotParallel(o)) =>
          /\ Len(triangles) = 3 * 2
          /\ \A i \in 1..Len(triangles) : InsideFrustum(vertices[triangles[i]])
          /\ Len(vertices) = prev_nb_vertices + 2
          /\ { triangles[i] : i \in 1..Len(triangles) } =
                 { prev_triangles[i] : i \in (1..3) \ {o} }
                 \cup { prev_nb_vertices + 1, prev_nb_vertices + 2 }
          /\ triangles[1] = triangles[4]
          /\ triangles[3] = triangles[5]
          /\ \A k \in 1..2 : dot4(NearPlane, vertices[prev_nb_vertices + k]) = Q(0)

\* C13 witness: such a triangle has been clipped into two triangles.
C13_Witness ==
    /\ ClippedOneTriangle
    /\ \E o \in 1..3 : OneOutsideNear(o) /\ OnlyNearAndNotParallel(o)
    /\ Len(triangles) = 6
    /\ Len(vertices) = prev_nb_vertices + 2

---------------------------------------------------------------------------
(* Properties of the pixels the rasterizer writes.                         *)

\* C14 as claimed: every pixel the rasterizer writes has alpha 255, whether
\* the geometry is untextured or textured with an RGB24 or RGBA32 texture.
C14_AlphaAlways255 ==
    \A tile_nb \in DOMAIN frame_hits :
        \A k \in DOMAIN frame_hits[tile_nb] :
            frame_hits[tile_nb][k].drawn => frame_hits[tile_nb][k].color[4] = 255

---------------------------------------------------------------------------
(* The shader as a state machine: lights are created with Light::new and   *)
(* added to the scene, and Shader::shade is called on a normal.            *)

\* Largest number of lights in the scene.
MaxLights == 2

\* Shader::ambient, within its documented range 0-1.
Ambients == { Q(0), R(1, 10), Q(1) }
\* The arguments Light::new is called with.
Strengths == { Q(-1), R(1, 2), R(3, 2) }
Directions == { DVec3(0, 0, -1), DVec3(0, 0, 0), DVec3(3, 0, -4) }
LightTypes ==
    { AtInfinity(d) : d \in Directions }
    \cup { Point(DVec3(0, 0, 1), Q(-1), Q(0), Q(1)) }
\* Unit normals.
Normals == { DVec3(0, 0, 1), DVec3(0, 0, -1), DVec3(1, 0, 0), << R(-3, 5), Q(0), R(4, 5) >> }

ShadeInit ==
    /\ GeomUnused
    /\ RasterUnused
    /\ CatalogUnused
    /\ sample_call = <<>>
    /\ AppUnused
    /\ lights = <<>>
    /\ \E ambient \in Ambients : shader = Shader_new(ambient, "Flat")
    /\ shade_call = <<>>

\* scene.add_light(Light::new(strength, color, light_type)) (scene/mod.rs
\* 44-46).
AddLight ==
    /\ Len(lights) < MaxLights
    /\ \E strength \in Strengths, light_type \in LightTypes :
          lights' = Append(lights, Light_new(strength, <<255, 255, 255>>, light_type))
    /\ UNCHANGED <<shader, shade_call, texture_catalog, add_calls, sample_call,
                   geomVars, rasterVars, appVars>>

\* shader.shade(normal, scene.lights())
Shade ==
    /\ \E normal \in Normals :
          shade_call' = [normal |-> normal, lights |-> lights,
                         outcome |-> shade(shader, normal, lights)]
    /\ UNCHANGED <<lights, shader, texture_catalog, add_calls, sample_call,
                   geomVars, rasterVars, appVars>>

ShadeNext == AddLight \/ Shade

SpecShade == ShadeInit /\ [][ShadeNext]_vars

\* ---- properties ----

IsDirectional(light) == light.light_type.kind = "AtInfinity"
AllDirectional(ls) == \A i \in DOMAIN ls : IsDirectional(ls[i])

\* sum_i strength_i * max(0, n . (-dir_i)) over directional lights.
RECURSIVE DiffuseSum(_, _)
DiffuseSum(normal, ls) ==
    IF ls = <<>> THEN Q(0)
    ELSE LET l == ls[Len(ls)]
             lambert == dot3(normal, neg(l.light_type.dir))
         IN  QAdd(DiffuseSum(normal, SubSeq(ls, 1, Len(ls) - 1)),
                  QMul(l.strength, IF QLt(Q(0), lambert) THEN lambert ELSE Q(0)))

Clamp01(q) == IF QLt(q, Q(0)) THEN Q(0) ELSE IF QLt(Q(1), q) THEN Q(1) ELSE q

\* C16: for every normal and every list of directional lights made by
\* Light::new, Shader::shade returns a multiplier in [0,1] equal to
\* clamp(ambient + sum_i strength_i * max(0, n . (-dir_i)), 0, 1).
C16_ShadeIsClampedLambert ==
    (shade_call # <<>> /\ AllDirectional(shade_call.lights)) =>
        /\ ~shade_call.outcome.panicked
        /\ QLe(Q(0), shade_call.outcome.value)
        /\ QLe(shade_call.outcome.value, Q(1))
        /\ shade_call.outcome.value =
              Clamp01(QAdd(shader.ambient,
                           DiffuseSum(shade_call.normal, shade_call.lights)))

\* C16 witness: shade has returned for two directional lights, one of them
\* of strength 0 (Light::new was given a negative strength), the other lit
\* so that ambient + sum exceeds 1 and the result is clamped to 1.
C16_Witness ==
    /\ shade_call # <<>>
    /\ Len(shade_call.lights) = 2
    /\ AllDirectional(shade_call.lights)
    /\ \E i \in 1..2 : shade_call.lights[i].strength = Q(0)
    /\ QLt(Q(1), QAdd(shader.ambient, DiffuseSum(shade_call.normal, shade_call.lights)))
    /\ shade_call.outcome = Returned(Q(1))

\* C17 as claimed: Shader::shade called with a light list that contains a
\* Point light completes, and returns what it returns for the list without
\* the Point lights (they contribute nothing beyond ambient).
C17_PointLightContributesNothing ==
    (shade_call # <<>> /\ ~AllDirectional(shade_call.lights)) =>
        /\ ~shade_call.outcome.panicked
        /\ shade_call.outcome =
              shade(shader, shade_call.normal,
                    SelectSeq(shade_call.lights, IsDirectional))


\* The flat-shading factor L of the triangles of draw call m of the scene.
FlatShading(m) == shade(shader, MeshNormals[meshes[m]], lights).value

\* The byte written is the product texel * L brought to a whole number
\* (rounded down or up).
IsShaded(byte, texel_byte, L) ==
    QLt(QAbs(QSub(Q(byte), QMul(Q(texel_byte), L))), Q(1))

\* C15 as claimed: every textured pixel the rasterizer writes has RGB equal
\* to the RGB of the texel sampled at the pixel's uv multiplied by the
\* flat-shading factor L of the pixel's triangle.
C15_TexelTimesShading ==
    \A tile_nb \in DOMAIN frame_hits :
        \A k \in DOMAIN frame_hits[tile_nb] :
            LET h == frame_hits[tile_nb][k]
                texture == DrawTexture(h.draw)
            IN  (h.drawn /\ texture.is_some) =>
                    LET texel == from_uv(texture.texture, h.uv[1], h.uv[2])
                    IN  \A c \in 1..3 : IsShaded(h.color[c], texel[c], FlatShading(h.draw))

---------------------------------------------------------------------------
(* Texture::from_uv as a function of its arguments: a texture and a uv are *)
(* drawn, and the texture is sampled there and at the uv shifted by whole  *)
(* numbers.                                                                *)

\* u and v are multiples of 1 / UvSteps between -MaxUvStep / UvSteps and
\* MaxUvStep / UvSteps; the shifts are whole numbers up to MaxShift either way.
UvSteps == 4
MaxUvStep == 6
MaxShift == 1

UvValues == { R(k, UvSteps) : k \in (-MaxUvStep)..MaxUvStep }
Shifts == (-MaxShift)..MaxShift

FourTexels == [width |-> 2, height |-> 2, format |-> "RGB24",
               pixels |-> << <<255, 0, 0>>, <<0, 255, 0>>,
                             <<0, 0, 255>>, <<255, 255, 255>> >>]
SampleTextures == { TwoTexels, FourTexels }

SampleInit ==
    /\ GeomUnused
    /\ RasterUnused
    /\ ShadeUnused
    /\ CatalogUnused
    /\ AppUnused
    /\ \E texture \in SampleTextures, u \in UvValues, v \in UvValues :
          sample_call = [texture |-> texture, u |-> u, v |-> v, called |-> FALSE]

\* texture.from_uv(u, v) and texture.from_uv(u + n, v + m)
FromUv ==
    /\ \E n \in Shifts, m \in Shifts :
          sample_call' =
              [texture |-> sample_call.texture, u |-> sample_call.u, v |-> sample_call.v,
               called |-> TRUE, n |-> n, m |-> m,
               pixel |-> from_uv(sample_call.texture, sample_call.u, sample_call.v),
               shifted |-> from_uv(sample_call.texture, QAdd(sample_call.u, Q(n)),
                                   QAdd(sample_call.v, Q(m)))]
    /\ UNCHANGED <<lights, shader, shade_call, texture_catalog, add_calls,
                   geomVars, rasterVars, appVars>>

SpecSample == SampleInit /\ [][FromUv]_vars

\* C18 as claimed: for every texture, all finite u, v and all integers n, m,
\* sampling at (u, v) returns the same pixel as sampling at (u + n, v + m).
C18_SamplePeriodic ==
    (sample_call # <<>> /\ sample_call.called) =>
        sample_call.pixel = sample_call.shifted

---------------------------------------------------------------------------
(* resources/texture.rs: TextureCatalog.  The catalog is [next_id,         *)
(* textures, texture_ids], the two HashMaps being functions.  next_id is a *)
(* u32; the calls explored leave it far below 2^32.                        *)

\* TextureCatalog::new (texture.rs 16-22).
TextureCatalog_new == [next_id |-> 1, textures |-> <<>>, texture_ids |-> <<>>]

\* Result<u32, TextureError>
Ok(id) == [is_ok |-> TRUE, id |-> id]
TextureNameAlreadyExists(name, id) == [is_ok |-> FALSE, name |-> name, id |-> id]

\* add_texture whose error carries next_id in place of the stored id.
add_texture_reports_next_id(self, name, texture) ==
    IF name \in DOMAIN self.texture_ids
    THEN [catalog |-> self,
          result |-> TextureNameAlreadyExists(name, self.next_id)]
    ELSE [catalog |-> [next_id |-> self.next_id + 1,
                       textures |-> self.textures @@ (self.next_id :> texture),
                       texture_ids |-> self.texture_ids @@ (name :> self.next_id)],
          result |-> Ok((self.next_id + 1) - 1)]

\* add_texture that advances next_id before it looks the name up.
add_texture_consumes_id(self, name, texture) ==
    IF name \in DOMAIN self.texture_ids
    THEN [catalog |-> [self EXCEPT !.next_id = @ + 1],
          result |-> TextureNameAlreadyExists(name, self.texture_ids[name])]
    ELSE [catalog |-> [next_id |-> self.next_id + 1,
                       textures |-> self.textures @@ (self.next_id :> texture),
                       texture_ids |-> self.texture_ids @@ (name :> self.next_id)],
          result |-> Ok((self.next_id + 1) - 1)]

\* TextureCatalog::add_texture (texture.rs 33-41): the catalog after the call
\* and the value returned.
add_texture(self, name, texture) ==
    IF name \in DOMAIN self.texture_ids
    THEN [catalog |-> self,
          result |-> TextureNameAlreadyExists(name, self.texture_ids[name])]
    ELSE [catalog |-> [next_id |-> self.next_id + 1,
                       textures |-> self.textures @@ (self.next_id :> texture),
                       texture_ids |-> self.texture_ids @@ (name :> self.next_id)],
          result |-> Ok((self.next_id + 1) - 1)]

\* Number of add_texture calls explored.
MaxAdds == 4

TextureNames == { "Checkered", "Brick", "Wood" }
CatalogTextures == { Red, Green }

CatalogInit ==
    /\ GeomUnused
    /\ RasterUnused
    /\ ShadeUnused
    /\ sample_call = <<>>
    /\ AppUnused
    /\ texture_catalog = TextureCatalog_new
    /\ add_calls = <<>>

\* catalog.add_texture(name, texture)
AddTexture ==
    /\ Len(add_calls) < MaxAdds
    /\ \E name \in TextureNames, texture \in CatalogTextures :
          \E r \in { add_texture(texture_catalog, name, texture) } :
              /\ texture_catalog' = r.catalog
              /\ add_calls' = Append(add_calls,
                                     [name |-> name, texture |-> texture,
                                      before |-> texture_catalog, result |-> r.result])
    /\ UNCHANGED <<lights, shader, shade_call, sample_call, geomVars, rasterVars, appVars>>

SpecCatalog == CatalogInit /\ [][AddTexture]_vars

\* ---- properties ----

\* The catalog as call k left it.
CatalogAfter(k) == IF k = Len(add_calls) THEN texture_catalog ELSE add_calls[k + 1].before
\* Call k was made with a name an earlier call had already used.
NameTaken(k) == \E j \in 1..(k - 1) : add_calls[j].name = add_calls[k].name
\* The first call that used the name of call k.
FirstUse(k) == CHOOSE j \in 1..k :
                   /\ add_calls[j].name = add_calls[k].name
                   /\ \A i \in 1..(j - 1) : add_calls[i].name # add_calls[k].name

\* C19: add_texture with a name that is already present returns the
\* name-already-exists error carrying that name and the id issued when the
\* name was first added, and leaves next_id, the id->texture map and the
\* name->id map unchanged.
C19_DuplicateNameRejected ==
    \A k \in DOMAIN add_calls :
        NameTaken(k) =>
            /\ add_calls[FirstUse(k)].result.is_ok
            /\ add_calls[k].result =
                  TextureNameAlreadyExists(add_calls[k].name,
                                           add_calls[FirstUse(k)].result.id)
            /\ CatalogAfter(k) = add_calls[k].before
            /\ CatalogAfter(k).textures[add_calls[k].result.id]
                  = add_calls[FirstUse(k)].texture

\* C19 witness: the latest call was rejected for a name added first, after
\* another name had been added since, and offered a different texture.
C19_Witness ==
    /\ Len(add_calls) >= 3
    /\ NameTaken(Len(add_calls))
    /\ FirstUse(Len(add_calls)) = 1
    /\ ~add_calls[Len(add_calls)].result.is_ok
    /\ add_calls[Len(add_calls)].result.id = 1
    /\ texture_catalog.next_id = 3
    /\ add_calls[Len(add_calls)].texture # add_calls[1].texture

\* The calls that succeeded, in order.
Successes == SelectSeq(add_calls, LAMBDA c : c.result.is_ok)

\* C20: after any sequence of add_texture calls on a new catalog the k-th
\* successful insert returned id k, failed inserts consumed no id, id 0 was
\* never issued, distinct names map to distinct ids, and the ids of the
\* name->id map are the keys of the id->texture map.
C20_IdsDenseFromOne ==
    /\ \A k \in DOMAIN Successes : Successes[k].result.id = k
    /\ texture_catalog.next_id = Len(Successes) + 1
    /\ 0 \notin DOMAIN texture_catalog.textures
    /\ \A c \in { add_calls[k] : k \in DOMAIN add_calls } : c.result.id # 0
    /\ \A n1, n2 \in DOMAIN texture_catalog.texture_ids :
          n1 # n2 => texture_catalog.texture_ids[n1] # texture_catalog.texture_ids[n2]
    /\ { texture_catalog.texture_ids[n] : n \in DOMAIN texture_catalog.texture_ids }
          = DOMAIN texture_catalog.textures
    /\ DOMAIN texture_catalog.texture_ids = { add_calls[k].name : k \in DOMAIN add_calls }

\* C20 witness: an insert succeeded, the next was rejected, and the one
\* after succeeded with id 2; three names are in the catalog.
C20_Witness ==
    /\ Len(add_calls) = 4
    /\ add_calls[1].result = Ok(1)
    /\ ~add_calls[2].result.is_ok
    /\ add_calls[3].result = Ok(2)
    /\ add_calls[4].result = Ok(3)

---------------------------------------------------------------------------
(* resources/texture.rs: Texture::from_pixels.  Its width, height and      *)
(* buffer length are usize (64 bits).  A usize is written <<k, r>> and     *)
(* stands for k * 2^62 + r with k in 0..3 and r below 2^15, which holds    *)
(* the small sizes and the sizes whose product with a channel count        *)
(* passes 2^64.                                                            *)

usize(k, r) == <<k, r>>

\* a * b in usize: whether the product passes 2^64, and the product modulo
\* 2^64 (what the multiplication leaves where overflow is not checked).
usize_mul(a, b) ==
    [overflow |-> a[1] * b[1] > 0 \/ a[1] * b[2] + b[1] * a[2] >= 4,
     value |-> usize((a[1] * b[2] + b[1] * a[2]) % 4, a[2] * b[2])]

\* TextureError::MismatchedPixelDataSize
MismatchedPixelDataSize(expected, actual) ==
    [is_ok |-> FALSE, expected |-> expected, actual |-> actual]

\* Texture::from_pixels (texture.rs 133-158).  width * height *
\* format_channels overflows by panicking where overflow checks are compiled
\* in and by wrapping where they are not.
from_pixels(width, height, pixels, format, overflow_checks) ==
    LET format_channels == IF format = "RGBA32" THEN usize(0, 4) ELSE usize(0, 3)
        wh == usize_mul(width, height)
        whc == usize_mul(wh.value, format_channels)
        len == usize(0, Len(pixels))
    IN  IF overflow_checks /\ (wh.overflow \/ whc.overflow)
        THEN Panicked
        ELSE IF whc.value # len
        THEN MismatchedPixelDataSize(whc.value, len)
        ELSE [is_ok |-> TRUE,
              texture |-> [pixels |-> pixels, width |-> width, height |-> height,
                           format |-> format]]

\* Length of the longest byte buffer explored.
MaxPixelBytes == 8

\* Widths and heights: 0..3, 2^62 and 2^63.
Sizes == { usize(0, n) : n \in 0..3 } \cup { usize(1, 0), usize(2, 0) }
\* Byte buffers of every length up to MaxPixelBytes.
PixelBuffers == { [i \in 1..n |-> (37 * i) % 256] : n \in 0..MaxPixelBytes }

TextureInit ==
    /\ GeomUnused
    /\ RasterUnused
    /\ ShadeUnused
    /\ CatalogUnused
    /\ sample_call = <<>>
    /\ MeshUnused
    /\ CameraUnused
    /\ clip_w_inv = <<>>
    /\ InputUnused
    /\ LoopUnused
    /\ texture_call = <<>>

\* Texture::from_pixels(width, height, &pixels, format)
FromPixels ==
    /\ \E width \in Sizes, height \in Sizes, pixels \in PixelBuffers,
          format \in {"RGB24", "RGBA32"}, overflow_checks \in BOOLEAN :
          texture_call' = [width |-> width, height |-> height, pixels |-> pixels,
                           format |-> format,
                           result |-> from_pixels(width, height, pixels, format,
                                                  overflow_checks)]
    /\ UNCHANGED <<geomVars, rasterVars, resourceVars, meshVars, cameraVars,
                   clip_w_inv, inputVars, loopVars>>

SpecTexture == TextureInit /\ [][FromPixels]_vars

\* ---- properties ----

\* width * height * channels of the latest call does not fit a usize.
ProductOverflows ==
    LET c == IF texture_call.format = "RGBA32" THEN usize(0, 4) ELSE usize(0, 3)
        wh == usize_mul(texture_call.width, texture_call.height)
    IN  wh.overflow \/ usize_mul(wh.value, c).overflow
\* width * height * channels of the latest call, when it fits.
Product ==
    LET c == IF texture_call.format = "RGBA32" THEN usize(0, 4) ELSE usize(0, 3)
    IN  usize_mul(usize_mul(texture_call.width, texture_call.height).value, c).value

\* C21: from_pixels fails with MismatchedPixelDataSize{expected = width *
\* height * channels, actual = pixels.len()} exactly when pixels.len()
\* differs from width * height * channels, and otherwise returns a texture
\* holding those bytes and dimensions.
C21_FromPixelsChecksSize ==
    texture_call # <<>> =>
        LET len == usize(0, Len(texture_call.pixels))
            r == texture_call.result
        IN  IF ~ProductOverflows /\ Product = len
            THEN r = [is_ok |-> TRUE,
                      texture |-> [pixels |-> texture_call.pixels,
                                   width |-> texture_call.width,
                                   height |-> texture_call.height,
                                   format |-> texture_call.format]]
            ELSE /\ r # Panicked
                 /\ ~r.is_ok
                 /\ r.actual = len
                 /\ ~ProductOverflows => r.expected = Product

---------------------------------------------------------------------------
(* glam matrices and quaternions as the program uses them.  A DMat4 is the *)
(* sequence of its four rows; a DQuat is <<x, y, z, w>>.                   *)

DMat4_IDENTITY ==
    << DVec4(1, 0, 0, 0), DVec4(0, 1, 0, 0), DVec4(0, 0, 1, 0), DVec4(0, 0, 0, 1) >>
DQuat_IDENTITY == DVec4(0, 0, 0, 1)

\* DMat4 * DVec4
mul_vec4(m, v) == [i \in 1..4 |-> dot4(m[i], v)]
\* DMat4 * DMat4
mul_mat4(a, b) ==
    [i \in 1..4 |-> [j \in 1..4 |-> dot4(a[i], <<b[1][j], b[2][j], b[3][j], b[4][j]>>)]]
from_translation(t) ==
    << <<Q(1), Q(0), Q(0), t[1]>>, <<Q(0), Q(1), Q(0), t[2]>>,
       <<Q(0), Q(0), Q(1), t[3]>>, DVec4(0, 0, 0, 1) >>
from_scale(s) ==
    << <<s[1], Q(0), Q(0), Q(0)>>, <<Q(0), s[2], Q(0), Q(0)>>,
       <<Q(0), Q(0), s[3], Q(0)>>, DVec4(0, 0, 0, 1) >>
\* The rotation matrix of a unit quaternion.
from_quat(q) ==
    LET x == q[1]  y == q[2]  z == q[3]  w == q[4]
        two(a, b) == QMul(Q(2), QMul(a, b))
    IN  << << QSub(Q(1), QAdd(two(y, y), two(z, z))), QSub(two(x, y), two(w, z)),
              QAdd(two(x, z), two(w, y)), Q(0) >>,
           << QAdd(two(x, y), two(w, z)), QSub(Q(1), QAdd(two(x, x), two(z, z))),
              QSub(two(y, z), two(w, x)), Q(0) >>,
           << QSub(two(x, z), two(w, y)), QAdd(two(y, z), two(w, x)),
              QSub(Q(1), QAdd(two(x, x), two(y, y))), Q(0) >>,
           DVec4(0, 0, 0, 1) >>
\* self.mul_quat(rhs): the rotation rhs followed by the rotation self.
mul_quat(self, rhs) ==
    LET x0 == self[1]  y0 == self[2]  z0 == self[3]  w0 == self[4]
        x1 == rhs[1]   y1 == rhs[2]   z1 == rhs[3]   w1 == rhs[4]
    IN  << QAdd(QAdd(QMul(w0, x1), QMul(x0, w1)), QSub(QMul(y0, z1), QMul(z0, y1))),
           QAdd(QAdd(QMul(w0, y1), QMul(y0, w1)), QSub(QMul(z0, x1), QMul(x0, z1))),
           QAdd(QAdd(QMul(w0, z1), QMul(z0, w1)), QSub(QMul(x0, y1), QMul(y0, x1))),
           QSub(QSub(QMul(w0, w1), QMul(x0, x1)), QAdd(QMul(y0, y1), QMul(z0, z1))) >>
\* DQuat::normalize
normalize_quat(q) == [i \in 1..4 |-> QDiv(q[i], sqrt(dot4(q, q)))]

---------------------------------------------------------------------------
(* resources/mesh.rs: Mesh                                                 *)

\* Mesh::new (mesh.rs 39-49): no validation of the vertices or the indices.
Mesh_new(texture_id, local_vertices, tris) ==
    [texture_id |-> texture_id,
     world_transfrom |-> DMat4_IDENTITY,
     translation |-> DVec3(0, 0, 0),
     quat |-> DQuat_IDENTITY,
     scale |-> DVec3(1, 1, 1),
     local_vertices |-> local_vertices,
     triangles |-> tris]

\* Mesh::update_transform (mesh.rs 82-84)
update_transform(self) ==
    [self EXCEPT !.world_transfrom =
        mul_mat4(mul_mat4(from_translation(self.translation), from_quat(self.quat)),
                 from_scale(self.scale))]

\* Mesh::apply_transform (mesh.rs 51-53): translation, quat and scale stay.
apply_transform(self, transform) ==
    [self EXCEPT !.world_transfrom = mul_mat4(transform, self.world_transfrom)]
\* Mesh::translate (mesh.rs 55-58)
translate(self, translation) ==
    update_transform([self EXCEPT !.translation =
                         [i \in 1..3 |-> QAdd(self.translation[i], translation[i])]])
\* Mesh::rotate (mesh.rs 64-69)
rotate(self, rot) ==
    update_transform([self EXCEPT !.quat = normalize_quat(mul_quat(rot, self.quat))])
\* Mesh::scale_mesh (mesh.rs 71-74)
scale_mesh(self, scale) ==
    update_transform([self EXCEPT !.scale =
                         [i \in 1..3 |-> QMul(self.scale[i], scale[i])]])
\* Mesh::scale_add (mesh.rs 76-79)
scale_add(self, scale) ==
    update_transform([self EXCEPT !.scale =
                         [i \in 1..3 |-> QAdd(self.scale[i], scale[i])]])
\* Mesh::set_quat (mesh.rs 117-121)
set_quat(self, quat) == update_transform([self EXCEPT !.quat = normalize_quat(quat)])
\* Mesh::set_scale (mesh.rs 123-127)
set_scale(self, scale) == update_transform([self EXCEPT !.scale = scale])
\* Mesh::set_translation (mesh.rs 129-133)
set_translation(self, translation) ==
    update_transform([self EXCEPT !.translation = translation])

\* Geometry::lin_transform (geometry.rs 73-77)
lin_transform(verts, transform) == [i \in DOMAIN verts |-> mul_vec4(transform, verts[i])]

\* What process_scene does to a mesh up to backface culling (mod.rs 43-48):
\* from_mesh, lin_transform to world space, cull_backface.  Indexing a Vec
\* past its end panics.
cull_mesh(m, camera_position) ==
    LET g == from_mesh(m)
        world == lin_transform(g.vertices, m.world_transfrom)
        starts == { s \in 1..Len(g.triangles) : s % 3 = 1 }
    IN  IF \E s \in starts : \/ s + 2 > Len(g.triangles)
                             \/ \E k \in s..(s + 2) : g.triangles[k] > Len(world)
        THEN Panicked
        ELSE Returned(cull_backface(world, g.triangles, camera_position))

\* Number of Mesh mutator calls explored.
MaxMeshCalls == 2

\* The vertices the meshes are built from.
MeshVertices ==
    << Vertex_new(DVec3(0, 0, 0), DVec2(0, 0)), Vertex_new(DVec3(1, 0, 0), DVec2(1, 0)),
       Vertex_new(DVec3(0, 1, 0), DVec2(0, 1)) >>
\* Index lists: one triangle, a list of four indices, an index past the
\* last vertex, two triangles.
IndexLists == { <<0, 1, 2>>, <<0, 1, 2, 0>>, <<0, 1, 3>>, <<0, 1, 2, 2, 1, 0>> }
\* Arguments of the mutators.
MeshVectors == { DVec3(1, 0, 0), <<Q(0), Q(-2), R(1, 2)>> }
MeshQuats == { DVec4(1, 0, 0, 0), <<Q(0), Q(0), R(3, 5), R(4, 5)>>, DVec4(0, 0, 0, 2) }
MeshTransforms == { from_translation(DVec3(0, 0, 1)), from_scale(DVec3(2, 1, 1)) }

MeshInit ==
    /\ GeomUnused
    /\ RasterUnused
    /\ ShadeUnused
    /\ CatalogUnused
    /\ sample_call = <<>>
    /\ texture_call = <<>>
    /\ CameraUnused
    /\ clip_w_inv = <<>>
    /\ InputUnused
    /\ LoopUnused
    /\ MeshUnused

MeshUnchanged ==
    UNCHANGED <<geomVars, rasterVars, resourceVars, texture_call, cameraVars,
                clip_w_inv, inputVars, loopVars>>

\* Mesh::new(None, vertices, triangles)
MeshNew ==
    /\ mesh_calls = <<>>
    /\ \E tris \in IndexLists :
          /\ scene_mesh' = Mesh_new(NoTexture, MeshVertices, tris)
          /\ mesh_calls' = <<[op |-> "new", triangles |-> tris, result |-> scene_mesh']>>
    /\ MeshUnchanged

\* One of the mutators of the mesh.
MeshMutate ==
    /\ mesh_calls # <<>>
    /\ Len(mesh_calls) <= MaxMeshCalls
    /\ mesh_calls[Len(mesh_calls)].op # "cull_backface"
    /\ \E op \in {"translate", "set_translation", "scale_mesh", "scale_add", "set_scale",
                  "rotate", "set_quat", "apply_transform"} :
          \E arg \in CASE op \in {"rotate", "set_quat"} -> MeshQuats
                       [] op = "apply_transform" -> MeshTransforms
                       [] OTHER -> MeshVectors :
              /\ scene_mesh' =
                    CASE op = "translate" -> translate(scene_mesh, arg)
                      [] op = "set_translation" -> set_translation(scene_mesh, arg)
                      [] op = "scale_mesh" -> scale_mesh(scene_mesh, arg)
                      [] op = "scale_add" -> scale_add(scene_mesh, arg)
                      [] op = "set_scale" -> set_scale(scene_mesh, arg)
                      [] op = "rotate" -> rotate(scene_mesh, arg)
                      [] op = "set_quat" -> set_quat(scene_mesh, arg)
                      [] op = "apply_transform" -> apply_transform(scene_mesh, arg)
              /\ mesh_calls' = Append(mesh_calls, [op |-> op, arg |-> arg])
    /\ MeshUnchanged

\* process_scene reaches the mesh: from_mesh, lin_transform, cull_backface.
MeshCull ==
    /\ mesh_calls # <<>>
    /\ mesh_calls[Len(mesh_calls)].op # "cull_backface"
    /\ \E camera_position \in { DVec3(0, 0, 5), DVec3(0, 0, -5) } :
          mesh_calls' = Append(mesh_calls,
                               [op |-> "cull_backface",
                                result |-> cull_mesh(scene_mesh, camera_position)])
    /\ UNCHANGED scene_mesh
    /\ MeshUnchanged

MeshNext == MeshNew \/ MeshMutate \/ MeshCull

SpecMesh == MeshInit /\ [][MeshNext]_vars

\* ---- properties ----

\* The index list does not describe triangles of the vertex list.
InvalidIndices(tris, nb_vertices) ==
    \/ Len(tris) % 3 # 0
    \/ \E k \in DOMAIN tris : tris[k] >= nb_vertices

\* C22: constructing a mesh whose triangle index list has a length that is
\* not a multiple of 3, or holds an index outside the vertex list, fails
\* with an InvalidMesh error and no such mesh reaches the pipeline.
C22_InvalidMeshRejected ==
    (mesh_calls # <<>> /\ InvalidIndices(mesh_calls[1].triangles, Len(MeshVertices))) =>
        /\ mesh_calls[1].result = [is_ok |-> FALSE, error |-> "InvalidMesh"]
        /\ \A k \in DOMAIN mesh_calls : mesh_calls[k].op # "cull_backface"

\* C23: after any sequence of mutators the model transform equals
\* T(translation) * R(quat) * S(scale) of the current fields.
C23_TransformIsTRS ==
    scene_mesh # <<>> =>
        scene_mesh.world_transfrom =
            mul_mat4(mul_mat4(from_translation(scene_mesh.translation),
                              from_quat(scene_mesh.quat)),
                     from_scale(scene_mesh.scale))

---------------------------------------------------------------------------
(* scene/camera.rs: Camera.  A quarter turn of pitch has cos and sin       *)
(* sqrt(2)/2, so the camera's f64 values are modelled exactly as numbers    *)
(* a + b * sqrt(2) with a and b rational, written <<a, b>>.  An angle in    *)
(* radians is carried as [c, s], the cos and sin of half of it, which is    *)
(* what from_axis_angle takes of it.                                        *)

Surd(a, b) == <<a, b>>
\* Each operation takes its operands by value: they are computed once,
\* before the operation, as the operands of an f64 operation are.
SAdd(x, y) ==
    CHOOSE r \in { <<sum[1], sum[2]>> :
                    sum \in { [i \in 1..2 |-> QAdd(a[i], b[i])] : a \in {x}, b \in {y} } } : TRUE
SNeg(x) == CHOOSE r \in { <<QNeg(a[1]), QNeg(a[2])>> : a \in {x} } : TRUE
SSub(x, y) == SAdd(x, SNeg(y))
\* (a1 + a2 * sqrt(2)) * (b1 + b2 * sqrt(2)), from the products ai * bj.
SMul(x, y) ==
    CHOOSE r \in
        { << QAdd(m[1, 1], QMul(Q(2), m[2, 2])), QAdd(m[1, 2], m[2, 1]) >> :
          m \in { [i \in 1..2, j \in 1..2 |-> QMul(a[i], b[j])] : a \in {x}, b \in {y} } } : TRUE
\* -1, 0 or 1 as a + b * sqrt(2) is negative, zero or positive.
SSign(x) ==
    LET sign_of(v) ==
            LET sa == Sign(v[1][1])
                sb == Sign(v[2][1])
                a2 == QMul(v[1], v[1])
                b2 == QMul(Q(2), QMul(v[2], v[2]))
            IN  IF sa = 0 THEN sb
                ELSE IF sb = 0 \/ sb = sa THEN sa
                ELSE IF a2 = b2 THEN 0
                ELSE IF QLt(b2, a2) THEN sa ELSE sb
    IN  CHOOSE r \in { sign_of(v) : v \in {x} } : TRUE
SLt(x, y) == SSign(SSub(x, y)) < 0
SDiv(x, y) ==
    CHOOSE r \in
        { <<QDiv(p[1], n), QDiv(p[2], n)>> :
          <<p, n>> \in { << SMul(a, <<b[1], QNeg(b[2])>>),
                            QSub(QMul(b[1], b[1]), QMul(Q(2), QMul(b[2], b[2]))) >> :
                         a \in {x}, b \in {y} } } : TRUE

\* The integer square root of n, searched between lo and hi.
RECURSIVE floor_sqrt(_, _, _)
floor_sqrt(n, lo, hi) ==
    IF lo >= hi THEN lo
    ELSE CHOOSE r \in
             { IF mid <= n \div mid THEN floor_sqrt(n, mid, hi)
               ELSE floor_sqrt(n, lo, mid - 1) : mid \in { (lo + hi + 1) \div 2 } } : TRUE
\* The square root of a rational that has one, else None.
rational_sqrt(q) ==
    CHOOSE r \in
        { IF v[1] < 0 THEN None
          ELSE CHOOSE root \in
                   { IF n * n = v[1] /\ d * d = v[2] THEN <<n, d>> ELSE None :
                     n \in { floor_sqrt(v[1], 0, v[1]) },
                     d \in { floor_sqrt(v[2], 0, v[2]) } } : TRUE :
          v \in {q} } : TRUE
\* f64::sqrt of a non-negative a + b * sqrt(2) whose root is of that form.
SSqrt(x) ==
    LET half(q) == QDiv(q, Q(2))
        positive(root) == IF SSign(root) < 0 THEN SNeg(root) ELSE root
        root_of(v, p) == IF p = Q(0) THEN <<Q(0), rational_sqrt(half(v[1]))>>
                         ELSE <<p, QDiv(v[2], QMul(Q(2), p))>>
        rational_part(v, p_plus, p_minus) ==
            IF p_plus # None /\ (p_plus # Q(0) \/ v[2] = Q(0)) THEN p_plus ELSE p_minus
    IN  CHOOSE r \in
            { positive(root) :
              root \in { root_of(v, p) :
                <<v, p>> \in { <<a, rational_part(a, p_plus, p_minus)>> :
                  <<a, p_plus, p_minus>> \in
                    { <<b, rational_sqrt(half(QAdd(b[1], n))), rational_sqrt(half(QSub(b[1], n)))>> :
                      <<b, n>> \in
                        { <<c, rational_sqrt(QSub(QMul(c[1], c[1]), QMul(Q(2), QMul(c[2], c[2]))))>> :
                          c \in {x} } } } } } : TRUE

SZero == Surd(Q(0), Q(0))
SOne == Surd(Q(1), Q(0))
STwo == Surd(Q(2), Q(0))
\* DVec3 and DQuat constants over these numbers.
DVec3_X == <<SOne, SZero, SZero>>
DVec3_Y == <<SZero, SOne, SZero>>
DVec3_NEG_Z == <<SZero, SZero, SNeg(SOne)>>

\* The sum of a sequence of numbers, from its first to its last.
RECURSIVE SSum(_)
SSum(terms) ==
    IF Len(terms) = 1 THEN terms[1]
    ELSE CHOOSE r \in { SAdd(SSum(SubSeq(t, 1, Len(t) - 1)), t[Len(t)]) : t \in {terms} } : TRUE
SDot(a, b) ==
    CHOOSE r \in
        { SSum(IF Len(u) = 3 THEN <<p[1], p[2], p[3]>> ELSE <<p[1], p[2], p[3], p[4]>>) :
          <<u, p>> \in { <<c, [i \in 1..Len(c) |-> SMul(c[i], d[i])]>> :
                         c \in {a}, d \in {b} } } : TRUE
SCross(a, b) ==
    CHOOSE r \in
        { << SSub(p[2, 3], p[3, 2]), SSub(p[3, 1], p[1, 3]), SSub(p[1, 2], p[2, 1]) >> :
          p \in { [i \in 1..3, j \in 1..3 |-> SMul(u[i], v[j])] : u \in {a}, v \in {b} } } : TRUE
SScale(v, k) ==
    CHOOSE r \in { <<p[1], p[2], p[3]>> :
                    p \in { [i \in 1..3 |-> SMul(u[i], f)] : u \in {v}, f \in {k} } } : TRUE

\* An angle, by the cos and sin of its half.
Angle(c, s) == [c |-> c, s |-> s]
\* f64::acos: the angle in [0, pi] whose cos is d.
acos(d) ==
    Angle(SSqrt(SDiv(SAdd(SOne, d), STwo)), SSqrt(SDiv(SSub(SOne, d), STwo)))
\* angle - FRAC_PI_2
sub_frac_pi_2(angle) ==
    LET h == Surd(Q(0), R(1, 2))
    IN  Angle(SAdd(SMul(angle.c, h), SMul(angle.s, h)),
              SSub(SMul(angle.s, h), SMul(angle.c, h)))
\* angle * sign, sign being 1.0 or -1.0
mul_sign(angle, sign) == IF sign < 0 THEN Angle(angle.c, SNeg(angle.s)) ELSE angle

\* DQuat::from_axis_angle(axis, angle): (axis * sin(angle / 2), cos(angle / 2))
from_axis_angle(axis, angle) ==
    CHOOSE r \in { << p[1], p[2], p[3], a.c >> :
                    <<p, a>> \in { <<[i \in 1..3 |-> SMul(u[i], h.s)], h>> :
                                   u \in {axis}, h \in {angle} } } : TRUE
\* DQuat::mul_vec3
mul_vec3(q, rhs) ==
    LET terms(w, b, v) ==
            << SScale(v, SSub(SMul(w, w), SDot(b, b))),
               SScale(b, SMul(SDot(v, b), STwo)),
               SScale(SCross(b, v), SMul(w, STwo)) >>
    IN  CHOOSE r \in
            { << sum[1], sum[2], sum[3] >> :
              sum \in { [i \in 1..3 |-> SSum(<<t[1][i], t[2][i], t[3][i]>>)] :
                  t \in { terms(w, b, v) :
                      <<w, b, v>> \in { <<p[4], <<p[1], p[2], p[3]>>, u>> :
                                        p \in {q}, u \in {rhs} } } } } : TRUE
\* DQuat::mul_quat(self, rhs) followed by DQuat::normalize
mul_quat_normalize(self, rhs) ==
    LET \* p[i, j] is self[i] * rhs[j]; x, y, z, w are 1, 2, 3, 4.
        product(p) ==
             << SSum(<<p[4, 1], p[1, 4], p[2, 3], SNeg(p[3, 2])>>),
                SSum(<<p[4, 2], p[2, 4], p[3, 1], SNeg(p[1, 3])>>),
                SSum(<<p[4, 3], p[3, 4], p[1, 2], SNeg(p[2, 1])>>),
                SSum(<<p[4, 4], SNeg(p[1, 1]), SNeg(p[2, 2]), SNeg(p[3, 3])>>) >>
        normalized(p) ==
            CHOOSE r \in { << d[1], d[2], d[3], d[4] >> :
                            d \in { [i \in 1..4 |-> SDiv(p[i], len)] :
                                    len \in { SSqrt(SDot(p, p)) } } } : TRUE
    IN  CHOOSE r \in
            { normalized(p) :
              p \in { product([i \in 1..4, j \in 1..4 |-> SMul(a[i], b[j])]) :
                      a \in {self}, b \in {rhs} } } : TRUE

\* Camera::update_transform (camera.rs 213-215): from_translation(position) *
\* from_quat(quat), the rotation matrix with the position as last column.
Camera_update_transform(self) ==
    LET \* two[i, j] is 2 * quat[i] * quat[j]; x, y, z, w are 1, 2, 3, 4.
        updated(c, two) ==
          [c EXCEPT !.transform =
            << << SSub(SOne, SAdd(two[2, 2], two[3, 3])), SSub(two[1, 2], two[4, 3]),
                  SAdd(two[1, 3], two[4, 2]), Surd(c.position[1], Q(0)) >>,
               << SAdd(two[1, 2], two[4, 3]), SSub(SOne, SAdd(two[1, 1], two[3, 3])),
                  SSub(two[2, 3], two[4, 1]), Surd(c.position[2], Q(0)) >>,
               << SSub(two[1, 3], two[4, 2]), SAdd(two[2, 3], two[4, 1]),
                  SSub(SOne, SAdd(two[1, 1], two[2, 2])), Surd(c.position[3], Q(0)) >>,
               << SZero, SZero, SZero, SOne >> >>]
    IN  CHOOSE r \in
            { updated(c, [i \in 1..4, j \in 1..4 |-> SMul(STwo, SMul(c.quat[i], c.quat[j]))]) :
              c \in {self} } : TRUE

\* Camera::new_perspective (camera.rs 101-126); the projection and the
\* velocity play no part in the rotations.
Camera_new_perspective(position, quat, camera_style) ==
    Camera_update_transform([position |-> position, quat |-> quat,
                             transform |-> <<>>, camera_style |-> camera_style])

\* Camera::quat_rotation (camera.rs 162-167)
quat_rotation(self, rot) ==
    CHOOSE r \in { Camera_update_transform([self EXCEPT !.quat = q]) :
                    q \in { mul_quat_normalize(rot, self.quat) } } : TRUE
\* Camera::pitch, Camera::yaw, Camera::roll (camera.rs 174-200)
Camera_pitch(self, angle) ==
    CHOOSE r \in { quat_rotation(self, quat) :
                    quat \in { from_axis_angle(mul_vec3(self.quat, DVec3_X), angle) } } : TRUE
Camera_yaw(self, angle) ==
    CHOOSE r \in { quat_rotation(self, quat) :
                    quat \in { from_axis_angle(mul_vec3(self.quat, DVec3_Y), angle) } } : TRUE
Camera_roll(self, angle) ==
    CHOOSE r \in { quat_rotation(self, quat) :
                    quat \in { from_axis_angle(mul_vec3(self.quat, DVec3_NEG_Z), angle) } } : TRUE

\* yaw_pitch_roll whose correction turns the same way as the overshoot.
yaw_pitch_roll_wrong_sign(self, yaw, pitch, roll, zero_sign) ==
    LET clamp(up) == IF SLt(up, SNeg(SOne)) THEN SNeg(SOne)
                     ELSE IF SLt(SOne, up) THEN SOne ELSE up
        correct(c, dot) ==
            LET fwd == SSign(SDot(DVec3_Y, mul_vec3(c.quat, DVec3_NEG_Z)))
                sign == IF fwd = 0 THEN zero_sign ELSE fwd
            IN  IF SLt(dot, SZero)
                THEN CHOOSE r \in { Camera_pitch(c, correction) :
                                    correction \in { mul_sign(sub_frac_pi_2(acos(dot)), sign) } } : TRUE
                ELSE c
        corrected(c) ==
            CHOOSE r \in { correct(c, dot) :
                            dot \in { clamp(SDot(DVec3_Y, mul_vec3(c.quat, DVec3_Y))) } } : TRUE
    IN  IF self.camera_style = "FPSLike"
        THEN CHOOSE r \in
                 { corrected(c2) :
                   c2 \in { Camera_pitch(c1, pitch) :
                             c1 \in { quat_rotation(self, from_axis_angle(DVec3_Y, yaw)) } } } : TRUE
        ELSE CHOOSE r \in
                 { Camera_roll(c2, roll) :
                   c2 \in { Camera_pitch(c1, pitch) : c1 \in { Camera_yaw(self, yaw) } } } : TRUE

\* Camera::yaw_pitch_roll (camera.rs 248-272).  signum of a zero is 1.0 or
\* -1.0 with the sign bit of the zero: zero_sign.
yaw_pitch_roll(self, yaw, pitch, roll, zero_sign) ==
    LET clamp(up) == IF SLt(up, SNeg(SOne)) THEN SNeg(SOne)
                     ELSE IF SLt(SOne, up) THEN SOne ELSE up
        correct(c, dot) ==
            LET fwd == SSign(SDot(DVec3_Y, mul_vec3(c.quat, DVec3_NEG_Z)))
                sign == -(IF fwd = 0 THEN zero_sign ELSE fwd)
            IN  IF SLt(dot, SZero)
                THEN CHOOSE r \in { Camera_pitch(c, correction) :
                                    correction \in { mul_sign(sub_frac_pi_2(acos(dot)), sign) } } : TRUE
                ELSE c
        corrected(c) ==
            CHOOSE r \in { correct(c, dot) :
                            dot \in { clamp(SDot(DVec3_Y, mul_vec3(c.quat, DVec3_Y))) } } : TRUE
    IN  IF self.camera_style = "FPSLike"
        THEN CHOOSE r \in
                 { corrected(c2) :
                   c2 \in { Camera_pitch(c1, pitch) :
                             c1 \in { quat_rotation(self, from_axis_angle(DVec3_Y, yaw)) } } } : TRUE
        ELSE CHOOSE r \in
                 { Camera_roll(c2, roll) :
                   c2 \in { Camera_pitch(c1, pitch) : c1 \in { Camera_yaw(self, yaw) } } } : TRUE

\* Number of yaw_pitch_roll calls explored.
MaxRotations == 2

\* Angles: 0, a quarter turn either way, a half turn, and the angles whose
\* half has cos and sin 4/5 and 3/5 (about 74 degrees) or 3/5 and 4/5 (about
\* 106 degrees), either way.
Quarter == Angle(Surd(Q(0), R(1, 2)), Surd(Q(0), R(1, 2)))
NoTurn == Angle(SOne, SZero)
Yaws == { NoTurn, Quarter }
Pitches ==
    { mul_sign(Quarter, -1), Angle(SZero, SOne),
      Angle(Surd(R(4, 5), Q(0)), Surd(R(3, 5), Q(0))),
      Angle(Surd(R(3, 5), Q(0)), Surd(R(4, 5), Q(0)))
    }

CameraInit ==
    /\ GeomUnused
    /\ RasterUnused
    /\ ShadeUnused
    /\ CatalogUnused
    /\ sample_call = <<>>
    /\ texture_call = <<>>
    /\ MeshUnused
    /\ clip_w_inv = <<>>
    /\ InputUnused
    /\ LoopUnused
    /\ \E camera_style \in {"FPSLike", "Free"} :
          scene_camera = Camera_new_perspective(DVec3(0, 0, 5),
                                                <<SZero, SZero, SZero, SOne>>, camera_style)
    /\ camera_calls = <<>>

\* camera.yaw_pitch_roll(yaw, pitch, roll)
YawPitchRoll ==
    /\ Len(camera_calls) < MaxRotations
    /\ \E yaw \in Yaws, pitch \in Pitches, zero_sign \in {-1, 1},
          roll \in {IF scene_camera.camera_style = "FPSLike" THEN NoTurn ELSE Quarter} :
          /\ scene_camera' = yaw_pitch_roll(scene_camera, yaw, pitch, roll, zero_sign)
          /\ camera_calls' = Append(camera_calls,
                                    [yaw |-> yaw, pitch |-> pitch, roll |-> roll,
                                     before |-> scene_camera.quat])
    /\ UNCHANGED <<geomVars, rasterVars, resourceVars, texture_call, meshVars,
                   clip_w_inv, inputVars, loopVars>>

SpecCamera == CameraInit /\ [][YawPitchRoll]_vars


\* ---- properties ----

\* dot(world_Y, R * world_Y) of the camera's orientation.
UpDot == SDot(DVec3_Y, mul_vec3(scene_camera.quat, DVec3_Y))
\* The latest call went past the vertical before it was corrected.
WentPastVertical ==
    \E last \in { camera_calls[Len(camera_calls)] } :
      \E c1 \in { quat_rotation([scene_camera EXCEPT !.quat = last.before],
                                from_axis_angle(DVec3_Y, last.yaw)) } :
        \E c2 \in { Camera_pitch(c1, last.pitch) } :
          SSign(SDot(DVec3_Y, mul_vec3(c2.quat, DVec3_Y))) < 0

----------------------------------------------------------------------------
(* Binning against the tiles' rectangles (rasterizer.rs 86-129, 196-262).  *)
(* The draw call's geometry is in vertices and triangles, in screen space  *)
(* as the stages before the rasterizer leave it: every position within     *)
(* [0, width] x [0, height], every triangle of positive area.              *)

MaxBinnedTriangles == 2

\* Screens as <<width, height, tile_size>>.
BinScreens == { <<5, 3, 2>>, <<4, 4, 2>>, <<6, 2, 3>>, <<3, 3, 3>> }

\* Triangles in fractions of the screen's width and height: a small one in
\* the upper left corner, one touching the right and bottom borders, one
\* over half the screen, a small one in the middle, one along the top right
\* and one along the bottom.
BinTriangleShapes ==
    { << <<Q(0), Q(0)>>, <<R(1, 4), Q(0)>>, <<Q(0), R(1, 4)>> >>,
      << <<R(3, 4), R(3, 4)>>, <<Q(1), R(3, 4)>>, <<Q(1), Q(1)>> >>,
      << <<Q(0), Q(0)>>, <<Q(1), Q(0)>>, <<Q(0), Q(1)>> >>,
      << <<R(1, 3), R(1, 2)>>, <<R(2, 3), R(1, 2)>>, <<R(1, 2), R(2, 3)>> >>,
      << <<R(1, 2), Q(0)>>, <<Q(1), Q(0)>>, <<Q(1), R(1, 2)>> >>,
      << <<Q(0), R(1, 2)>>, <<Q(1), Q(1)>>, <<Q(0), Q(1)>> >> }

\* The screen-space vertices of a list of shapes, three per shape.
BinVertices(shapes, w, h) ==
    [i \in 1..(3 * Len(shapes)) |->
        << QMul(shapes[(i + 2) \div 3][((i - 1) % 3) + 1][1], Q(w)),
           QMul(shapes[(i + 2) \div 3][((i - 1) % 3) + 1][2], Q(h)),
           R(1, 2), Q(1) >>]

\* A draw call is about to bin its triangles.
BinInit ==
    /\ \E s \in BinScreens :
          /\ screen_width = s[1]
          /\ screen_height = s[2]
          /\ rasterizer_tile_size = s[3]
          /\ \E shapes \in UNION { [1..n -> BinTriangleShapes] :
                                     n \in 1..MaxBinnedTriangles } :
                /\ vertices = BinVertices(shapes, s[1], s[2])
                /\ triangles = [i \in 1..(3 * Len(shapes)) |-> i]
    /\ uvs = <<>>
    /\ calls = <<>>
    /\ prev_triangles = <<>>
    /\ prev_nb_vertices = 0
    /\ rasterizer_tiles = <<>>
    /\ screen_frame = <<>>
    /\ meshes = <<>>
    /\ camera = 0
    /\ pc = "rasterize"
    /\ mesh_index = 0
    /\ cur_it = 0
    /\ task_bins = <<>>
    /\ task_pc = <<>>
    /\ frame_hits = <<>>
    /\ blit_log = <<>>
    /\ frame_start = <<>>
    /\ draw_start = <<>>
    /\ accesses = {}
    /\ ShadeUnused
    /\ CatalogUnused
    /\ sample_call = <<>>
    /\ AppUnused

BinGeometry == [vertices |-> vertices, triangles |-> triangles]

\* rasterizer.rs 75-129: the binning loop of rasterize_threaded.
Bin ==
    /\ pc = "rasterize"
    /\ task_bins' = bin_triangles(BinGeometry, screen_width, screen_height,
                                  rasterizer_tile_size)
    /\ pc' = "binned"
    /\ UNCHANGED <<screen_width, screen_height, rasterizer_tile_size, rasterizer_tiles,
                   screen_frame, meshes, camera, mesh_index, cur_it, task_pc,
                   frame_hits, blit_log, frame_start, draw_start, accesses,
                   geomVars, resourceVars, appVars>>

SpecBin == BinInit /\ [][Bin]_vars

\* The screen pixels (x, y) of tile tile_nb's T by T square.
TileSquare(tile_nb) ==
    { <<TileX0(tile_nb) + c, TileY0(tile_nb) + r>> :
        c \in 0..(rasterizer_tile_size - 1), r \in 0..(rasterizer_tile_size - 1) }

\* The screen pixels of a screen-clamped bounding box.
BoxPixels(aabs) == (aabs.min_x..aabs.max_x) \X (aabs.min_y..aabs.max_y)

\* The starts of the triangles of the draw call.
TriangleStarts == { s \in 1..Len(triangles) : s % 3 = 1 }

\* The entries of tile tile_nb's bin that are for the triangle at start.
BinEntries(tile_nb, start) ==
    { k \in 1..Len(task_bins[tile_nb]) : task_bins[tile_nb][k].triangle_start = start }

\* The indices into the tile's buffers that the loops over a binned
\* triangle's bounds visit: pixel_index = x + y * tile_size.
VisitedIndices(bt) ==
    { x + y * rasterizer_tile_size : x \in bt.min_x..bt.max_x, y \in bt.min_y..bt.max_y }

----------------------------------------------------------------------------
(* pipeline/mod.rs: Pipeline::process_scene, stage by stage.  The draw     *)
(* call's Geometry is in vertices, uvs, triangles and clip_w_inv; meshes   *)
(* holds the scene's meshes and camera the scene's camera, in rational     *)
(* arithmetic; calls is the history of the stages run, each with the       *)
(* geometry it left.  Lengths are in the unit of the clipper.              *)

\* pipeline/transforms.rs 25-48.  tan(hfov / 2) is taken for the hfov of
\* 90 degrees the program sets up.
perspective_transform(near_clip, far_clip, aspect_ratio, hfov) ==
    LET tan_half == CASE hfov = 90 -> Q(1)
        r == QMul(tan_half, near_clip)
        l == QNeg(r)
        t == QDiv(r, aspect_ratio)
        b == QNeg(t)
        n == near_clip
        f == far_clip
    IN  << << QDiv(QMul(Q(2), n), QSub(r, l)), Q(0), QDiv(QAdd(r, l), QSub(r, l)), Q(0) >>,
           << Q(0), QDiv(QMul(Q(2), n), QSub(t, b)), QDiv(QAdd(t, b), QSub(t, b)), Q(0) >>,
           << Q(0), Q(0), QDiv(QNeg(QAdd(f, n)), QSub(f, n)),
              QDiv(QNeg(QMul(Q(2), QMul(f, n))), QSub(f, n)) >>,
           << Q(0), Q(0), Q(-1), Q(0) >> >>

\* pipeline/transforms.rs 7-16
ndc_to_screen_transform(width, height) ==
    LET half_width == R(width, 2)
        half_height == R(height, 2)
    IN  << << half_width, Q(0), Q(0), half_width >>,
           << Q(0), QNeg(half_height), Q(0), half_height >>,
           DVec4(0, 0, 1, 0),
           DVec4(0, 0, 0, 1) >>

\* DMat4::inverse of a translation times a rotation, which is what
\* Camera::update_transform builds: the transposed rotation, and the
\* translation taken back through it.
inverse(m) ==
    LET rt == [i \in 1..3 |-> <<m[1][i], m[2][i], m[3][i]>>]
        t == <<m[1][4], m[2][4], m[3][4]>>
    IN  << <<rt[1][1], rt[1][2], rt[1][3], QNeg(dot3(rt[1], t))>>,
           <<rt[2][1], rt[2][2], rt[2][3], QNeg(dot3(rt[2], t))>>,
           <<rt[3][1], rt[3][2], rt[3][3], QNeg(dot3(rt[3], t))>>,
           DVec4(0, 0, 0, 1) >>

\* Camera::new_perspective (camera.rs 101-126) with update_transform
\* (camera.rs 213-215), for a quaternion with rational components.
new_perspective(position, quat, near_clip, far_clip, aspect_ratio, hfov) ==
    [position |-> position,
     quat |-> quat,
     transform |-> mul_mat4(from_translation(position), from_quat(quat)),
     projection |-> [near_clip |-> near_clip, far_clip |-> far_clip,
                     aspect_ratio |-> aspect_ratio, hfov |-> hfov]]

\* Geometry::set_clip_w_inv (geometry.rs 260-265)
set_clip_w_inv(verts) == [i \in DOMAIN verts |-> FDiv(Q(1), verts[i][4])]

\* Geometry::perspective_divide (geometry.rs 82-90)
perspective_divide(verts) ==
    [i \in DOMAIN verts |->
        << FDiv(verts[i][1], verts[i][4]), FDiv(verts[i][2], verts[i][4]),
           FDiv(verts[i][3], verts[i][4]), Q(1) >>]

\* The statements of the loop body of process_scene, capturing 1/w before
\* clipping instead of after it.
process_scene_stages_w_inv_first ==
    << "from_mesh", "model", "cull_backface", "view", "projection",
       "set_clip_w_inv", "clip_geometry", "perspective_divide", "viewport", "rasterize" >>

\* The statements of the loop body of process_scene (mod.rs 43-71), in the
\* order they are written: Geometry::from_mesh, lin_transform by the mesh's
\* transform, cull_backface, lin_transform by the camera's inverse
\* transform, lin_transform by the perspective transform, clip_geometry,
\* set_clip_w_inv, perspective_divide, lin_transform by ndc_to_screen, and
\* rasterize.
process_scene_stages ==
    << "from_mesh", "model", "cull_backface", "view", "projection",
       "clip_geometry", "set_clip_w_inv", "perspective_divide", "viewport", "rasterize" >>

\* The statement that follows a statement; after the last one the loop
\* starts over with the next mesh.
stage_after(stage) ==
    LET i == CHOOSE k \in DOMAIN process_scene_stages : process_scene_stages[k] = stage
    IN  IF i = Len(process_scene_stages) THEN process_scene_stages[1]
        ELSE process_scene_stages[i + 1]

\* Largest number of meshes in the scene of the staged pipeline.
MaxSceneMeshes == 2

\* A mesh of one or two triangles, moved to where it stands.
SceneMesh(positions, tris, translation) ==
    translate(Mesh_new(NoTexture,
                       [k \in DOMAIN positions |->
                           Vertex_new(positions[k], DVec2(k % 2, k \div 2))],
                       tris),
              translation)

\* The meshes scenes are made of:
\*   1  a quad facing +Z, inside the frustum of the first camera
\*   2  a triangle facing +Z that reaches far past the frustum's right side
\*   3  the triangle of 2 wound the other way, facing -Z
\*   4  a triangle facing +Z that crosses the near plane of the first camera
SceneMeshes ==
    << SceneMesh(<< DVec3(-4, -4, 0), DVec3(4, -4, 0), DVec3(4, 4, 0), DVec3(-4, 4, 0) >>,
                 <<0, 1, 2, 0, 2, 3>>, DVec3(0, 0, -16)),
       SceneMesh(<< DVec3(0, 0, 0), DVec3(40, 0, 0), DVec3(0, 8, 0) >>,
                 <<0, 1, 2>>, DVec3(-4, -4, -16)),
       SceneMesh(<< DVec3(0, 0, 0), DVec3(40, 0, 0), DVec3(0, 8, 0) >>,
                 <<0, 2, 1>>, DVec3(-4, -4, -16)),
       SceneMesh(<< DVec3(0, -4, 0), DVec3(0, 4, 14), DVec3(-8, 4, 0) >>,
                 <<0, 1, 2>>, DVec3(2, 0, -16)) >>

\* The cameras: at the origin looking along -Z as the program sets it up,
\* moved back and to the side, and behind the meshes looking along +Z
\* (half a turn about Y).
SceneCameras ==
    { new_perspective(DVec3(0, 0, 0), DQuat_IDENTITY, Q(4), Q(36), R(4, 3), 90),
      new_perspective(DVec3(4, 0, 8), DQuat_IDENTITY, Q(4), Q(36), Q(1), 90),
      new_perspective(DVec3(0, 0, -32), DVec4(0, 1, 0, 0), Q(4), Q(36), R(4, 3), 90) }

\* Pipeline::process_scene has been called and is about to enter its loop.
SceneInit ==
    /\ vertices = <<>>
    /\ uvs = <<>>
    /\ triangles = <<>>
    /\ clip_w_inv = <<>>
    /\ calls = <<>>
    /\ prev_triangles = <<>>
    /\ prev_nb_vertices = 0
    /\ \E s \in { <<4, 4>>, <<8, 6>> } : screen_width = s[1] /\ screen_height = s[2]
    /\ rasterizer_tile_size = 0
    /\ rasterizer_tiles = <<>>
    /\ screen_frame = <<>>
    /\ meshes \in UNION { [1..n -> 1..Len(SceneMeshes)] : n \in 0..MaxSceneMeshes }
    /\ camera \in SceneCameras
    /\ pc = process_scene_stages[1]
    /\ mesh_index = 1
    /\ cur_it = 0
    /\ task_bins = <<>>
    /\ task_pc = <<>>
    /\ frame_hits = <<>>
    /\ blit_log = <<>>
    /\ frame_start = <<>>
    /\ draw_start = <<>>
    /\ accesses = {}
    /\ ShadeUnused
    /\ CatalogUnused
    /\ sample_call = <<>>
    /\ texture_call = <<>>
    /\ MeshUnused
    /\ CameraUnused
    /\ InputUnused
    /\ LoopUnused

\* What a statement leaves unchanged besides the Geometry.
SceneUnchanged ==
    UNCHANGED <<prev_triangles, prev_nb_vertices, screen_width, screen_height,
                rasterizer_tile_size, rasterizer_tiles, screen_frame, meshes, camera,
                cur_it, task_bins, task_pc, frame_hits, blit_log, frame_start,
                draw_start, accesses, resourceVars, texture_call, meshVars,
                cameraVars, inputVars, loopVars>>

\* The statement stage has run on mesh mesh_index and left the geometry
\* (verts, uv, tris, w_inv).
Ran(stage, verts, uv, tris, w_inv) ==
    /\ pc = stage
    /\ mesh_index <= Len(meshes)
    /\ vertices' = verts
    /\ uvs' = uv
    /\ triangles' = tris
    /\ clip_w_inv' = w_inv
    /\ calls' = Append(calls, [op |-> stage, mesh |-> mesh_index, vertices |-> verts,
                               triangles |-> tris, clip_w_inv |-> w_inv])
    /\ pc' = stage_after(stage)
    /\ mesh_index' = IF stage = "rasterize" THEN mesh_index + 1 ELSE mesh_index
    /\ SceneUnchanged

\* mod.rs 44: let mut geometry = Geometry::from_mesh(mesh)
SceneFromMesh ==
    /\ mesh_index <= Len(meshes)
    /\ \E g \in {from_mesh(SceneMeshes[meshes[mesh_index]])} :
          Ran("from_mesh", g.vertices, g.uvs, g.triangles, <<>>)

\* mod.rs 46: geometry.lin_transform(mesh.transform())
SceneModelTransform ==
    /\ mesh_index <= Len(meshes)
    /\ Ran("model",
           lin_transform(vertices, SceneMeshes[meshes[mesh_index]].world_transfrom),
           uvs, triangles, clip_w_inv)

\* mod.rs 48: geometry.cull_backface(&camera.position())
SceneCullBackface ==
    Ran("cull_backface", vertices, uvs,
        cull_backface(vertices, triangles, camera.position), clip_w_inv)

\* mod.rs 50: geometry.lin_transform(&camera_inv_transform)
SceneViewTransform ==
    Ran("view", lin_transform(vertices, inverse(camera.transform)), uvs, triangles,
        clip_w_inv)

\* mod.rs 52: geometry.lin_transform(&perspective_transform)
SceneProjection ==
    Ran("projection",
        lin_transform(vertices,
                      perspective_transform(camera.projection.near_clip,
                                            camera.projection.far_clip,
                                            camera.projection.aspect_ratio,
                                            camera.projection.hfov)),
        uvs, triangles, clip_w_inv)

\* mod.rs 54: geometry.clip_geometry()
SceneClipGeometry ==
    \E r \in {clip_geometry(vertices, uvs, triangles)} :
       Ran("clip_geometry", r.vertices, r.uvs, r.triangles, clip_w_inv)

\* mod.rs 55: geometry.set_clip_w_inv()
SceneSetClipWInv ==
    Ran("set_clip_w_inv", vertices, uvs, triangles, set_clip_w_inv(vertices))

\* mod.rs 57: geometry.perspective_divide()
ScenePerspectiveDivide ==
    Ran("perspective_divide", perspective_divide(vertices), uvs, triangles, clip_w_inv)

\* mod.rs 59-62: geometry.lin_transform(&ndc_to_screen_transform(..))
SceneViewport ==
    Ran("viewport",
        lin_transform(vertices, ndc_to_screen_transform(screen_width, screen_height)),
        uvs, triangles, clip_w_inv)

\* mod.rs 65-70: self.rasterize(&geometry, screen, texture); the loop goes
\* on to the next mesh.
SceneRasterize ==
    Ran("rasterize", vertices, uvs, triangles, clip_w_inv)

SceneNext ==
    \/ SceneFromMesh
    \/ SceneModelTransform
    \/ SceneCullBackface
    \/ SceneViewTransform
    \/ SceneProjection
    \/ SceneClipGeometry
    \/ SceneSetClipWInv
    \/ ScenePerspectiveDivide
    \/ SceneViewport
    \/ SceneRasterize

SpecScene == SceneInit /\ [][SceneNext]_vars


\* The entries of the history that are the statements run on the m-th mesh.
StagesOf(m) == SelectSeq(calls, LAMBDA e : e.mesh = m)

\* The triangle at start of a triangle list faces the camera, its vertices
\* being the mesh's local vertices taken to world space by the mesh's
\* transform.
FacesCameraInWorld(m, tris, start) ==
    LET mesh == SceneMeshes[meshes[m]]
        world == [k \in DOMAIN mesh.local_vertices |->
                     mul_vec4(mesh.world_transfrom, mesh.local_vertices[k].position)]
    IN  faces_camera(xyz(world[tris[start]]), xyz(world[tris[start + 1]]),
                     xyz(world[tris[start + 2]]), camera.position)

\* C26: process_scene takes the meshes in scene order and runs on each, in
\* this order, model transform, backface culling against the camera
\* position, view transform, projection, frustum clipping, capture of 1/w,
\* perspective divide, viewport transform and rasterization; culling is done
\* on the world-space triangles before clipping; 1/w is captured from the
\* clipped clip-space vertices before the divide, so that clip_w_inv has one
\* entry per vertex, the vertices added by clipping included.
C26_StageOrder ==
    /\ \A k \in 1..Len(calls) :
          /\ calls[k].mesh = ((k - 1) \div 10) + 1
          /\ calls[k].op =
                << "from_mesh", "model", "cull_backface", "view", "projection",
                   "clip_geometry", "set_clip_w_inv", "perspective_divide", "viewport",
                   "rasterize" >>[((k - 1) % 10) + 1]
    /\ \A m \in 1..Len(meshes) :
          LET st == StagesOf(m)
          IN  /\ Len(st) >= 3 =>
                    /\ \A s \in { s \in 1..Len(st[2].triangles) : s % 3 = 1 } :
                          FacesCameraInWorld(m, st[2].triangles, s)
                            <=> \E c \in { c \in 1..Len(st[3].triangles) : c % 3 = 1 } :
                                    SubSeq(st[3].triangles, c, c + 2)
                                      = SubSeq(st[2].triangles, s, s + 2)
                    /\ \A c \in { c \in 1..Len(st[3].triangles) : c % 3 = 1 } :
                          FacesCameraInWorld(m, st[3].triangles, c)
              /\ Len(st) >= 6 =>
                    Len(st[6].vertices) >= Len(st[5].vertices)
              /\ Len(st) >= 7 =>
                    /\ Len(st[7].clip_w_inv) = Len(st[6].vertices)
                    /\ \A i \in 1..Len(st[6].vertices) :
                          st[7].clip_w_inv[i] = FDiv(Q(1), st[6].vertices[i][4])
              /\ \A k \in 8..Len(st) :
                    /\ st[k].clip_w_inv = st[7].clip_w_inv
                    /\ Len(st[k].clip_w_inv) = Len(st[k].vertices)
                    /\ \A i \in 1..Len(st[k].vertices) : st[k].vertices[i][4] = Q(1)
    /\ pc \in {"perspective_divide", "viewport", "rasterize"} =>
          Len(clip_w_inv) = Len(vertices)

\* C26 witness: the second mesh of the scene has been rasterized; clipping
\* had added vertices to it, each of which got its 1/w, and culling had
\* removed a triangle of one of the meshes.
C26_Witness ==
    /\ Len(calls) = 20
    /\ calls[20].op = "rasterize"
    /\ calls[20].triangles # <<>>
    /\ Len(calls[16].vertices) > Len(calls[15].vertices)
    /\ Len(clip_w_inv) = Len(calls[16].vertices)
    /\ \E k \in {3, 13} : Len(calls[k].triangles) < Len(calls[k - 1].triangles)


----------------------------------------------------------------------------
(* inputs.rs: InputHandler.  key_states is the HashMap from the tracked    *)
(* keys to their InputState, key_bindings the three HashMaps from keys to  *)
(* Actions, mouse_delta the Option<DVec2> (NoDelta for None).  An Action   *)
(* is a record with its variant in the field type.                         *)

NoDelta == <<>>
EmptyMap == [k \in {} |-> {}]
Insert(map, k, v) == [x \in DOMAIN map \cup {k} |-> IF x = k THEN v ELSE map[x]]
Remove(map, keys) == [x \in DOMAIN map \ keys |-> map[x]]

Action(type) == [type |-> type]
RotateCamera(yaw, pitch, roll) ==
    [type |-> "RotateCamera", yaw |-> yaw, pitch |-> pitch, roll |-> roll]

\* InputHandler::setup_default_bindings (inputs.rs 222-232)
setup_default_bindings ==
    [pressed_action |-> EmptyMap,
     held_action |->
         [k \in {"KeyW", "KeyA", "KeyS", "KeyD", "Space", "ControlLeft"} |->
             CASE k = "KeyW" -> Action("MoveForwards")
               [] k = "KeyA" -> Action("MoveLeft")
               [] k = "KeyS" -> Action("MoveBackwards")
               [] k = "KeyD" -> Action("MoveRight")
               [] k = "Space" -> Action("MoveUp")
               [] k = "ControlLeft" -> Action("MoveDown")],
     released_action |-> EmptyMap]

\* InputHandler::sensitivity (inputs.rs 47)
sensitivity == 1

\* InputHandler::bind (inputs.rs 62-75)
bind(bindings, input_state, key_code, action) ==
    CASE input_state = "Pressed" ->
           [bindings EXCEPT !.pressed_action = Insert(@, key_code, action)]
      [] input_state = "Held" ->
           [bindings EXCEPT !.held_action = Insert(@, key_code, action)]
      [] input_state = "Released" ->
           [bindings EXCEPT !.released_action = Insert(@, key_code, action)]
      [] OTHER -> bindings

\* The pushes of `if let Some(action) = map.get(k) { actions.push(..) }`.
pushed(map, k) == IF k \in DOMAIN map THEN <<map[k]>> ELSE <<>>

\* One iteration of the loop over key_states (inputs.rs 88-137) with the
\* Pressed arm not raising the key to Held.
collect_key_keeps_pressed(bindings, st, k) ==
    LET v == st.key_states[k]
    IN  CASE v = "Held" ->
               [st EXCEPT !.actions = @ \o pushed(bindings.held_action, k)]
          [] v = "Released" ->
               [st EXCEPT !.actions = @ \o pushed(bindings.released_action, k),
                          !.key_to_delete = Append(@, k)]
          [] v = "Pressed" ->
               [st EXCEPT !.actions = @ \o (IF k \in DOMAIN bindings.pressed_action
                                            THEN pushed(bindings.pressed_action, k)
                                            ELSE pushed(bindings.held_action, k))]
          [] v = "PressedReleased" ->
               [st EXCEPT !.actions = @ \o (IF k \in DOMAIN bindings.pressed_action
                                            THEN pushed(bindings.pressed_action, k)
                                            ELSE pushed(bindings.held_action, k))
                                        \o pushed(bindings.released_action, k),
                          !.key_to_delete = Append(@, k)]

\* One iteration of the loop over key_states (inputs.rs 88-137), for key k.
\* st is [key_states, actions, key_to_delete].
collect_key(bindings, st, k) ==
    LET v == st.key_states[k]
    IN  CASE v = "Held" ->
               [st EXCEPT !.actions = @ \o pushed(bindings.held_action, k)]
          [] v = "Released" ->
               [st EXCEPT !.actions = @ \o pushed(bindings.released_action, k),
                          !.key_to_delete = Append(@, k)]
          [] v = "Pressed" ->
               [st EXCEPT !.actions = @ \o (IF k \in DOMAIN bindings.pressed_action
                                            THEN pushed(bindings.pressed_action, k)
                                            ELSE pushed(bindings.held_action, k)),
                          !.key_states = [@ EXCEPT ![k] = "Held"]]
          [] v = "PressedReleased" ->
               [st EXCEPT !.actions = @ \o (IF k \in DOMAIN bindings.pressed_action
                                            THEN pushed(bindings.pressed_action, k)
                                            ELSE pushed(bindings.held_action, k))
                                        \o pushed(bindings.released_action, k),
                          !.key_to_delete = Append(@, k)]

\* The loop over key_states, in the order the HashMap yields the keys.
RECURSIVE collect_keys(_, _, _, _)
collect_keys(bindings, st, order, i) ==
    IF i > Len(order)
    THEN st
    ELSE collect_keys(bindings, collect_key(bindings, st, order[i]), order, i + 1)

\* InputHandler::collect_actions (inputs.rs 85-163): the key states and the
\* mouse delta afterwards, and the Vec returned.
collect_actions(states, bindings, delta, order) ==
    LET st == collect_keys(bindings,
                           [key_states |-> states, actions |-> <<>>,
                            key_to_delete |-> <<>>],
                           order, 1)
        kept == Remove(st.key_states, { st.key_to_delete[i] : i \in 1..Len(st.key_to_delete) })
        shift_pressed == "ShiftLeft" \in DOMAIN kept
    IN  [key_states |-> kept,
         mouse_delta |-> NoDelta,
         actions |-> st.actions \o
             (IF delta = NoDelta THEN <<>>
              ELSE IF ~shift_pressed
                   THEN <<RotateCamera(-delta[1] * sensitivity, -delta[2] * sensitivity, 0)>>
                   ELSE <<RotateCamera(0, 0, -delta[1] * sensitivity)>>)]

\* InputHandler::press_key (inputs.rs 171-177)
press_key(states, key_code) ==
    IF key_code \notin DOMAIN states THEN Insert(states, key_code, "Pressed") ELSE states

\* InputHandler::release_key (inputs.rs 185-200)
release_key(states, key_code) ==
    IF key_code \notin DOMAIN states THEN states
    ELSE CASE states[key_code] = "Pressed" ->
                [states EXCEPT ![key_code] = "PressedReleased"]
           [] states[key_code] = "Held" -> [states EXCEPT ![key_code] = "Released"]
           [] OTHER -> states

\* InputHandler::mouse_move_raw (inputs.rs 209-218)
mouse_move_raw(delta, new_delta) ==
    IF delta # NoDelta THEN <<delta[1] + new_delta[1], delta[2] + new_delta[2]>>
    ELSE new_delta

\* Number of collect_actions calls explored, and the largest mouse travel
\* between two of them.
MaxCollects == 2
MaxMouseTravel == 1

Keys == {"KeyW", "ShiftLeft"}
MouseMoves == { <<1, -1>> }
\* The bindings an application adds to the default ones; the last one is
\* a bind with an InputState that bind ignores.
Binds ==
    { <<"Pressed", "KeyW", Action("ToggleMouseCapture")>>,
      <<"Released", "KeyW", [type |-> "AddCameraVelocity", velocity |-> 10]>>,
      <<"PressedReleased", "ShiftLeft", Action("MoveUp")>> }

\* The orders in which a HashMap with the given keys can yield them.
Orders(keys) ==
    { o \in [1..Cardinality(keys) -> keys] : { o[i] : i \in DOMAIN o } = keys }

\* InputHandler::new (inputs.rs 41-52)
InputInit ==
    /\ key_states = EmptyMap
    /\ key_bindings = setup_default_bindings
    /\ mouse_delta = NoDelta
    /\ keys_down = {}
    /\ collect_calls = [n |-> 0]
    /\ GeomUnused
    /\ RasterUnused
    /\ ShadeUnused
    /\ CatalogUnused
    /\ sample_call = <<>>
    /\ texture_call = <<>>
    /\ MeshUnused
    /\ CameraUnused
    /\ clip_w_inv = <<>>
    /\ LoopUnused

InputUnchanged ==
    UNCHANGED <<geomVars, rasterVars, resourceVars, texture_call, meshVars, cameraVars,
                clip_w_inv, loopVars>>

\* The application binds an action before the event loop runs.
Bind ==
    /\ collect_calls.n = 0
    /\ key_states = EmptyMap
    /\ \E b \in Binds : key_bindings' = bind(key_bindings, b[1], b[2], b[3])
    /\ UNCHANGED <<key_states, mouse_delta, keys_down, collect_calls>>
    /\ InputUnchanged

\* app.rs 260: a KeyboardInput event with ElementState::Pressed (a key
\* that is down sends it again when it repeats).
PressKey ==
    /\ \E k \in Keys :
          /\ key_states' = press_key(key_states, k)
          /\ keys_down' = keys_down \cup {k}
    /\ UNCHANGED <<key_bindings, mouse_delta, collect_calls>>
    /\ InputUnchanged

\* app.rs 261: a KeyboardInput event with ElementState::Released.
ReleaseKey ==
    /\ \E k \in Keys :
          /\ key_states' = release_key(key_states, k)
          /\ keys_down' = keys_down \ {k}
    /\ UNCHANGED <<key_bindings, mouse_delta, collect_calls>>
    /\ InputUnchanged

\* app.rs 278-281: a MouseMotion device event.
MouseMoveRaw ==
    /\ \E d \in MouseMoves :
          /\ mouse_delta' = mouse_move_raw(mouse_delta, d)
          /\ \A i \in 1..2 : mouse_delta'[i] \in -MaxMouseTravel..MaxMouseTravel
    /\ UNCHANGED <<key_states, key_bindings, keys_down, collect_calls>>
    /\ InputUnchanged

\* app.rs 106: handle_actions calls collect_actions.
CollectActions ==
    /\ collect_calls.n < MaxCollects
    /\ \E order \in Orders(DOMAIN key_states) :
         \E r \in {collect_actions(key_states, key_bindings, mouse_delta, order)} :
            /\ key_states' = r.key_states
            /\ mouse_delta' = r.mouse_delta
            /\ collect_calls' = [n |-> collect_calls.n + 1, before |-> key_states,
                                 delta |-> mouse_delta, down |-> keys_down,
                                 actions |-> r.actions, after |-> r.key_states]
    /\ UNCHANGED <<key_bindings, keys_down>>
    /\ InputUnchanged

InputNext == Bind \/ PressKey \/ ReleaseKey \/ MouseMoveRaw \/ CollectActions

SpecInput == InputInit /\ [][InputNext]_vars

\* The latest call of collect_actions met key k in state v.
Collected(k, v) ==
    /\ collect_calls.n > 0
    /\ k \in DOMAIN collect_calls.before
    /\ collect_calls.before[k] = v

\* How often the latest call of collect_actions returned the action.
Returned_count(action) ==
    Cardinality({ i \in 1..Len(collect_calls.actions) : collect_calls.actions[i] = action })

\* C27: after collect_actions no tracked key is Pressed, Released or
\* PressedReleased: a Pressed key has become Held, a Released or
\* PressedReleased key has been removed, a Held key is still Held.
C27_OnlyHeldAfterCollect ==
    collect_calls.n > 0 =>
      /\ \A k \in DOMAIN collect_calls.after : collect_calls.after[k] = "Held"
      /\ \A k \in DOMAIN collect_calls.before :
            IF collect_calls.before[k] \in {"Pressed", "Held"}
            THEN k \in DOMAIN collect_calls.after
            ELSE k \notin DOMAIN collect_calls.after
      /\ DOMAIN collect_calls.after \subseteq DOMAIN collect_calls.before

\* C27 witness: collect_actions has just returned; it had met one key in
\* state Pressed, which is Held now, and one in state Released or
\* PressedReleased, which is gone.
C27_Witness ==
    /\ collect_calls.n > 0
    /\ key_states = collect_calls.after
    /\ \E k1, k2 \in Keys :
          /\ Collected(k1, "Pressed")
          /\ k1 \in DOMAIN key_states /\ key_states[k1] = "Held"
          /\ Collected(k2, "Released") \/ Collected(k2, "PressedReleased")
          /\ k2 \notin DOMAIN key_states


\* The action a map binds to key k was returned exactly once by the latest
\* call of collect_actions, if the map binds one.
ActivatedOnce(map, k) == k \in DOMAIN map => Returned_count(map[k]) = 1

\* C28: at collect_actions a key in state Pressed activates both its
\* pressed action and its held action, and a key in state PressedReleased
\* activates its pressed, held and released actions, each exactly once.
C28_PressedActivatesPressedAndHeld ==
    \A k \in Keys :
       /\ Collected(k, "Pressed") =>
             /\ ActivatedOnce(key_bindings.pressed_action, k)
             /\ ActivatedOnce(key_bindings.held_action, k)
       /\ Collected(k, "PressedReleased") =>
             /\ ActivatedOnce(key_bindings.pressed_action, k)
             /\ ActivatedOnce(key_bindings.held_action, k)
             /\ ActivatedOnce(key_bindings.released_action, k)

\* C29: a key whose most recent event is a press is Held after the next
\* collect_actions, whatever happened to it since the collection before,
\* and from then on every collection returns its held action once.
C29_PressedKeyEndsHeld ==
    collect_calls.n > 0 =>
       \A k \in collect_calls.down :
          /\ k \in DOMAIN collect_calls.after
          /\ collect_calls.after[k] = "Held"
          /\ Collected(k, "Held") => ActivatedOnce(key_bindings.held_action, k)


----------------------------------------------------------------------------
(* app.rs: the frame loop of the event loop.  Time is counted in ticks;    *)
(* what next_frame does to the scene and to the screen is explored in the  *)
(* specifications of the rasterizer, here it collects the actions and      *)
(* counts the frame.                                                       *)

\* Largest max_it set, and the ticks the clock is followed for.
MaxIterations == 3
MaxTicks == 6
\* Duration::from_secs_f64(1.0 / self.fps as f64), in ticks.
FramePeriod == 2

\* App::next_frame (app.rs 174-194): handle_actions collects the actions,
\* process_scene renders, and the frame is counted.
next_frame(app) ==
    LET r == collect_actions(app.key_states, app.key_bindings, app.mouse_delta,
                             CHOOSE o \in Orders(DOMAIN app.key_states) : TRUE)
    IN  [app EXCEPT !.key_states = r.key_states,
                    !.mouse_delta = r.mouse_delta,
                    !.cur_it = @ + 1]

\* ApplicationHandler::about_to_wait (app.rs 295-323) at the given instant:
\* event_loop.exit() when cur_it >= max_it, and then, in either case, the
\* frame when its time has come.
about_to_wait(app, instant) ==
    LET checked == [app EXCEPT !.exiting = @ \/ app.cur_it >= app.max_it]
    IN  IF instant >= checked.next_frame_time
        THEN next_frame([checked EXCEPT !.next_frame_time = instant + FramePeriod])
        ELSE checked

\* The fields of the App that about_to_wait works on.
TheApp ==
    [cur_it |-> cur_it, max_it |-> max_it, exiting |-> exiting,
     next_frame_time |-> next_frame_time, key_states |-> key_states,
     key_bindings |-> key_bindings, mouse_delta |-> mouse_delta]

\* App::new (app.rs 60-84) followed by set_max_it (app.rs 207-209); the
\* event loop is about to run.
AppInit ==
    /\ max_it \in 0..MaxIterations
    /\ exiting = FALSE
    /\ now = 0
    /\ next_frame_time = 0
    /\ key_states = EmptyMap
    /\ key_bindings = setup_default_bindings
    /\ mouse_delta = NoDelta
    /\ keys_down = {}
    /\ collect_calls = [n |-> 0]
    /\ GeomUnused
    /\ RasterUnused
    /\ ShadeUnused
    /\ CatalogUnused
    /\ sample_call = <<>>
    /\ texture_call = <<>>
    /\ MeshUnused
    /\ CameraUnused
    /\ clip_w_inv = <<>>

AppUnchanged ==
    UNCHANGED <<geomVars, screen_width, screen_height, rasterizer_tile_size,
                rasterizer_tiles, screen_frame, meshes, camera, pc, mesh_index,
                task_bins, task_pc, frame_hits, blit_log, frame_start, draw_start,
                accesses, resourceVars, texture_call, meshVars, cameraVars, clip_w_inv,
                key_bindings, collect_calls>>

\* Time passes.
Tick ==
    /\ ~exiting
    /\ now < MaxTicks
    /\ now' = now + 1
    /\ UNCHANGED <<cur_it, max_it, exiting, next_frame_time, key_states, mouse_delta,
                   keys_down>>
    /\ AppUnchanged

\* app.rs 253-262: a key goes down or up.
AppKeyboardInput ==
    /\ ~exiting
    /\ \E k \in {"KeyW"} :
          \/ /\ key_states' = press_key(key_states, k)
             /\ keys_down' = keys_down \cup {k}
          \/ /\ key_states' = release_key(key_states, k)
             /\ keys_down' = keys_down \ {k}
    /\ UNCHANGED <<cur_it, max_it, exiting, now, next_frame_time, mouse_delta>>
    /\ AppUnchanged

\* app.rs 239-242: WindowEvent::CloseRequested
CloseRequested ==
    /\ ~exiting
    /\ exiting' = TRUE
    /\ UNCHANGED <<cur_it, max_it, now, next_frame_time, key_states, mouse_delta,
                   keys_down>>
    /\ AppUnchanged

\* The event loop calls about_to_wait; once exit() has been called it
\* calls no handler any more.
AppAboutToWait ==
    /\ ~exiting
    /\ \E app \in {about_to_wait(TheApp, now)} :
          /\ cur_it' = app.cur_it
          /\ exiting' = app.exiting
          /\ next_frame_time' = app.next_frame_time
          /\ key_states' = app.key_states
          /\ mouse_delta' = app.mouse_delta
    /\ UNCHANGED <<max_it, now, keys_down>>
    /\ AppUnchanged

AppNext == Tick \/ AppKeyboardInput \/ CloseRequested \/ AppAboutToWait

SpecApp == AppInit /\ [][AppNext]_vars

\* C30: the application renders at most max_it frames: cur_it never
\* exceeds max_it, and once cur_it has reached max_it no further frame is
\* computed.
C30_AtMostMaxItFrames ==
    /\ [](cur_it <= max_it)
    /\ [][cur_it >= max_it => cur_it' = cur_it]_vars

====
